---- MODULE Spec2Model ----
(***************************************************************************)
(* browser-recall: the incremental synchronization engine                  *)
(* (app/scheduler.py, app/main.py), the watermark store and search index   *)
(* (app/database.py) and the domain filters (app/config.py,                *)
(* src/domain_exclusions.py).                                              *)
(*                                                                         *)
(* A string is a sequence of one-character strings, so that glob matching, *)
(* splitting and lower-casing are computed character by character.         *)
(***************************************************************************)
EXTENDS Integers, Sequences, FiniteSets, TLC

(***************************************************************************)
(* Bounds of the model.                                                    *)
(***************************************************************************)
MaxHostLen == 3
MaxPatLen == 3
MaxClock == 2
MaxFaults == 1
MaxRows == 3
MaxBatch == 2

\* timedelta(minutes=5) of the websocket handler, in clock units
RecentWindow == 1

\* LIMIT 100 of the basic search, LIMIT 1000 of the advanced search
BasicLimit == 100
AdvancedLimit == 1000

\* the length of a token of tokenize='trigram'
TrigramLen == 3

(***************************************************************************)
(* Strings.                                                                *)
(***************************************************************************)
HostChars == {"b", "B", "1", "."}
PatChars == HostChars \cup {"*"}
Digits == {"1"}

RECURSIVE StringsUpTo(_, _)
StringsUpTo(chars, n) ==
    IF n = 0 THEN {<<>>}
    ELSE LET shorter == StringsUpTo(chars, n - 1)
         IN  shorter \cup {Append(s, c) : s \in shorter, c \in chars}

\* str.lower() on one character
LowerChar(c) == IF c = "B" THEN "b" ELSE c

\* str.lower()
Lower(s) == [i \in DOMAIN s |-> LowerChar(s[i])]

\* any(c.isdigit() for c in s)
HasDigit(s) == \E i \in DOMAIN s : s[i] \in Digits

\* c in s, for a one-character c
HasChar(s, c) == \E i \in DOMAIN s : s[i] = c

\* s.startswith(p)
StartsWith(s, p) == Len(p) <= Len(s) /\ SubSeq(s, 1, Len(p)) = p

\* s.endswith(p)
EndsWith(s, p) ==
    Len(p) <= Len(s) /\ SubSeq(s, Len(s) - Len(p) + 1, Len(s)) = p

\* p in s (substring test)
Contains(s, p) ==
    \E i \in 1..(Len(s) - Len(p) + 1) : SubSeq(s, i, i + Len(p) - 1) = p

\* s.rstrip(c)
RECURSIVE RStrip(_, _)
RStrip(s, c) ==
    IF s # <<>> /\ s[Len(s)] = c THEN RStrip(SubSeq(s, 1, Len(s) - 1), c)
    ELSE s

\* s.split('.'): the sequence of the segments of s
RECURSIVE SplitDot(_)
SplitDot(s) ==
    IF ~HasChar(s, ".") THEN <<s>>
    ELSE LET i == CHOOSE k \in DOMAIN s :
                      s[k] = "." /\ \A j \in 1..(k - 1) : s[j] # "."
         IN  <<SubSeq(s, 1, i - 1)>> \o SplitDot(SubSeq(s, i + 1, Len(s)))

\* fnmatch.fnmatch(name, pat) on a POSIX system, for patterns made of
\* literals, '*' and '?' : the whole name must match.
RECURSIVE fnmatch(_, _)
fnmatch(name, pat) ==
    IF pat = <<>> THEN name = <<>>
    ELSE IF Head(pat) = "*"
         THEN fnmatch(name, Tail(pat))
              \/ (name # <<>> /\ fnmatch(Tail(name), pat))
    ELSE IF Head(pat) = "?"
         THEN name # <<>> /\ fnmatch(Tail(name), Tail(pat))
    ELSE name # <<>> /\ Head(name) = Head(pat)
         /\ fnmatch(Tail(name), Tail(pat))

(***************************************************************************)
(* app/config.py, ReaderConfig: the host-based filter with the subdomain   *)
(* rule and the octet-aware comparison.                                    *)
(***************************************************************************)
\* _match_ip_pattern accepting a host as soon as one segment agrees
match_ip_pattern_any(domain, pattern) ==
    LET domain_parts == SplitDot(domain)
        pattern_parts == SplitDot(pattern)
    IN  /\ HasDigit(domain)
        /\ Len(domain_parts) = Len(pattern_parts)
        /\ \E i \in DOMAIN pattern_parts :
              pattern_parts[i] = <<"*">> \/ domain_parts[i] = pattern_parts[i]

\* ReaderConfig._match_ip_pattern(domain, pattern)
match_ip_pattern(domain, pattern) ==
    LET domain_parts == SplitDot(domain)
        pattern_parts == SplitDot(pattern)
    IN  /\ HasDigit(domain)
        /\ Len(domain_parts) = Len(pattern_parts)
        /\ \A i \in DOMAIN pattern_parts :
              pattern_parts[i] = <<"*">> \/ domain_parts[i] = pattern_parts[i]

\* the body of the loop of ReaderConfig.is_domain_excluded for one pattern;
\* domain is already lower-cased
pattern_excludes(domain, pattern0) ==
    LET pattern == Lower(pattern0)
    IN  \/ (HasDigit(pattern) /\ match_ip_pattern(domain, pattern))
        \/ fnmatch(domain, pattern)
        \/ fnmatch(domain, <<"*", ".">> \o pattern)

\* ReaderConfig.is_domain_excluded(domain)
is_domain_excluded(domain0, excluded_patterns) ==
    LET domain == Lower(domain0)
    IN  \E pattern \in excluded_patterns : pattern_excludes(domain, pattern)

(***************************************************************************)
(* app/config.py, Config (the second class of that name, which is the one  *)
(* the module exports): the filter the scheduler and the startup import    *)
(* consult.                                                                *)
(***************************************************************************)
\* Config.is_domain_ignored(domain)
is_domain_ignored(domain, excluded_domains) ==
    IF domain = <<>> THEN TRUE
    ELSE IF excluded_domains = {} THEN FALSE
    ELSE LET domain_lower == Lower(domain)
         IN  \E pattern \in excluded_domains :
                 fnmatch(domain_lower, Lower(pattern))

(***************************************************************************)
(* URLs.  A URL is the record of the components urlparse() returns for it; *)
(* NoUrl is the empty string (or None).                                    *)
(***************************************************************************)
NoUrl == [scheme |-> "", netloc |-> <<>>, path |-> <<>>]

Url(host, path) == [scheme |-> "http", netloc |-> host, path |-> path]

\* a string for which urlparse() raises ValueError ('Invalid IPv6 URL'), such
\* as 'http://['
BadUrl == [scheme |-> "http", netloc |-> <<"[">>, path |-> <<>>]

\* urllib.parse.urlparse(url) raises
urlparse_raises(url) == url = BadUrl

\* urllib.parse.urlparse(url).netloc
netloc(url) == url.netloc

(***************************************************************************)
(* src/domain_exclusions.py, DomainExclusions: the URL-based filter.       *)
(***************************************************************************)
\* the patterns DomainExclusions.load_config keeps
load_config(loaded_patterns) == {p \in loaded_patterns : p # <<>>}

\* the body of the loop of DomainExclusions.is_excluded for one pattern
url_pattern_excludes(domain, path, pattern) ==
    IF HasChar(pattern, "/")
    THEN LET normalized_pattern == RStrip(pattern, "/")
             normalized_domain_path == RStrip(domain \o path, "/")
         IN  \/ (normalized_pattern = domain /\ path = <<"/">>)
             \/ (StartsWith(normalized_domain_path, normalized_pattern)
                 /\ normalized_pattern # domain)
    ELSE LET pattern_for_endswith ==
                 IF StartsWith(pattern, <<".">>) THEN pattern
                 ELSE <<".">> \o pattern
             domain_for_endswith == <<".">> \o domain
         IN  \/ domain = pattern
             \/ EndsWith(domain_for_endswith, pattern_for_endswith)
             \/ ((StartsWith(pattern, <<".">>) \/ EndsWith(pattern, <<".">>))
                 /\ Contains(domain, pattern))

\* DomainExclusions.is_excluded(url_string)
is_excluded(url, excluded_domains) ==
    IF url = NoUrl THEN TRUE
    ELSE IF netloc(url) = <<>> THEN TRUE
    ELSE LET domain == netloc(url)
             path == IF url.path = <<>> THEN <<"/">>
                     ELSE IF Head(url.path) # "/" THEN <<"/">> \o url.path
                     ELSE url.path
         IN  \E pattern \in excluded_domains :
                 url_pattern_excludes(domain, path, pattern)

(***************************************************************************)
(* Timestamps.  A datetime is its wall-clock reading in seconds with its   *)
(* UTC offset; a naive datetime has no offset and is read as local time.   *)
(* NoTime is None.                                                         *)
(***************************************************************************)
LocalUtcOffset == 1

NoTime == [tz |-> "none", wall |-> 0, off |-> 0]

Aware(wall, off) == [tz |-> "aware", wall |-> wall, off |-> off]

Naive(wall) == [tz |-> "naive", wall |-> wall, off |-> 0]

\* datetime.timestamp(): epoch seconds; a naive datetime is local time
timestamp(dt) ==
    IF dt.tz = "naive" THEN dt.wall - LocalUtcOffset ELSE dt.wall - dt.off

\* a datetime whose conversion to UTC leaves the range of datetime, such as
\* datetime.min with a positive offset: astimezone() raises OverflowError
Unconvertible == [tz |-> "overflow", wall |-> 0, off |-> 0]

\* HistoryScheduler._normalize_datetime(dt) raises: lines 33-34 and 37 call
\* astimezone() outside any try
normalize_raises(dt) == dt = Unconvertible

\* HistoryScheduler._normalize_datetime(dt)
normalize_datetime(dt) ==
    IF dt = NoTime THEN NoTime ELSE Aware(timestamp(dt), 0)

(***************************************************************************)
(* The History Source: the visits and bookmarks a browser can hold.        *)
(***************************************************************************)
HostA == <<"a">>
HostB == <<"b">>
HostSub == <<"a", ".", "b">>

\* excluded_domains of the configuration, read once at start-up
ExcludedDomains == {<<"b">>}

Visits ==
    { [visit_time |-> Aware(1, 0), url |-> Url(HostA, <<"/">>), title |-> "t1"],
      [visit_time |-> Naive(1 + LocalUtcOffset), url |-> Url(HostB, <<"/">>),
       title |-> "t2"],
      [visit_time |-> Aware(3, 1), url |-> Url(HostSub, <<"/">>), title |-> "t3"] }

Bookmarks ==
    { [added_time |-> Aware(1, 0), url |-> Url(HostA, <<"/">>), title |-> "b1",
       folder |-> "f"],
      [added_time |-> Naive(1 + LocalUtcOffset), url |-> Url(HostB, <<"/">>),
       title |-> "b3", folder |-> "f"] }

\* the time of an entry of either kind
TimeOf(e) == IF "visit_time" \in DOMAIN e THEN e.visit_time ELSE e.added_time

\* the orders in which a snapshot can enumerate the set S
RECURSIVE Perms(_)
Perms(S) ==
    IF S = {} THEN {<<>>}
    ELSE UNION {{<<x>> \o p : p \in Perms(S \ {x})} : x \in S}

(***************************************************************************)
(* State.                                                                  *)
(***************************************************************************)
Tasks == {"import", "bookmarks", "history"}

SourceKey ==
    [import |-> "browser_history", bookmarks |-> "browser_bookmarks",
     history |-> "browser_history_scheduler"]

SourceKeys == {SourceKey[t] : t \in Tasks}

VARIABLES
    clock,              \* the wall clock, epoch seconds
    faults,             \* failures and restarts so far
    srcHistory,         \* the visits the History Source holds
    srcBookmarks,       \* the bookmarks the History Source holds
    last_processed,     \* table last_processed: rows (source, last_timestamp)
    history,            \* table history: the committed rows, by id
    bookmarks,          \* table bookmarks: the committed rows, by id
    history_fts,        \* the text index: the rows of history_fts
    fts_nrow,           \* the text index: the row count it keeps
    fts_objects,        \* the schema objects of the text index that exist
    r_pc,               \* recreate_fts_tables: where it stands
    r_before,           \* the text index when recreate_fts_tables began
    db_lock,            \* HistoryScheduler.db_lock: its holder, or "free"
    pc,                 \* where each task stands
    current_timestamp,  \* per task: the `now` recorded by its cycle
    last_timestamp,     \* per task: the watermark its cycle read
    new_entries,        \* per task: the entries that survived filtering
    session,            \* per task: rows added to its session, not committed
    cursor,             \* import: index of the next entry of new_entries
    fetched,            \* per task: the snapshot its cycle fetched
    visible,            \* per task: rows of its cycle that are committed
    failed,             \* per task: a commit of its cycle was rolled back
    ingested,           \* per task: the source entries its cycles committed
    fHost,              \* filter check: the host (or the URL's host)
    fPatterns,          \* filter check: the configured patterns
    fResult,            \* filter check: the implementation run and its answer
    w_pc,               \* enrichment worker: where it stands
    entries_to_process, \* enrichment worker: the detached rows of its batch
    entry_index,        \* enrichment worker: its place in the batch
    w_result,           \* enrichment worker: the markdown of the crawl result
    w_markdown,         \* enrichment worker: markdown_content of the entry
    crawled,            \* the ids of the rows handed to crawler.arun
    crawl_failed,       \* the ids of the rows whose latest crawl raised
    ws_pc,              \* page handler of the socket: where it stands
    ws_entry,           \* page handler of the socket: the entry it builds
    sQuery,             \* search: the parameters of the request
    sResult,            \* search: the implementation run and its answer
    cText,              \* clean_whitespace: the text it is given
    cResult             \* clean_whitespace: whether it has run, and its result

srcVars == <<srcHistory, srcBookmarks>>
dbVars == <<last_processed, history, bookmarks, history_fts, fts_nrow,
            ingested>>
cycleVars == <<current_timestamp, last_timestamp, new_entries, session, cursor,
               fetched, visible, failed>>
filterVars == <<fHost, fPatterns, fResult>>
enrichVars == <<w_pc, entries_to_process, entry_index, w_result, w_markdown,
                crawled, crawl_failed, ws_pc, ws_entry>>
searchVars == <<sQuery, sResult>>
reindexVars == <<fts_objects, r_pc, r_before>>
readerVars == <<cText, cResult>>
vars == <<clock, faults, srcVars, dbVars, db_lock, pc, cycleVars, filterVars,
          enrichVars, searchVars, reindexVars, readerVars>>

(***************************************************************************)
(* app/database.py: the watermark store and the tables.                    *)
(***************************************************************************)
\* get_last_processed_timestamp(source) on the table tbl
get_last_processed_timestamp(tbl, source) ==
    IF \E r \in tbl : r.source = source
    THEN (CHOOSE r \in tbl : r.source = source).last_timestamp
    ELSE 0

\* update_last_processed_timestamp replacing the whole table by the one row
update_replaces_table(tbl, source, ts) ==
    {[source |-> source, last_timestamp |-> ts]}

\* update_last_processed_timestamp(source, timestamp): INSERT OR REPLACE
update_last_processed_timestamp(tbl, source, ts) ==
    {r \in tbl : r.source # source}
        \cup {[source |-> source, last_timestamp |-> ts]}

\* the rows of `rows` as committed after the rows of `tbl` (ids autoincrement)
Inserted(tbl, rows) ==
    tbl \o [i \in 1..Len(rows) |-> [rows[i] EXCEPT !.id = Len(tbl) + i]]

\* trigger history_ai: the index rows for the rows inserted after `tbl`
TriggerInsert(fts, tbl, rows) ==
    fts \cup { [rowid |-> Len(tbl) + i, title |-> rows[i].title,
                markdown_content |-> rows[i].markdown_content,
                domain |-> rows[i].domain, visit_time |-> rows[i].visit_time]
               : i \in 1..Len(rows) }

NULL == "NULL"

\* HistoryEntry(url, title, visit_time, domain): markdown_content and
\* last_content_update are nullable and not given (database.py:66-67)
HistoryEntry(url, title, visit_time, domain) ==
    [id |-> 0, url |-> url, title |-> title, visit_time |-> visit_time,
     domain |-> domain, markdown_content |-> NULL,
     last_content_update |-> NoTime]

\* Bookmark(url, title, added_time, folder, domain)
Bookmark(url, title, added_time, folder, domain) ==
    [id |-> 0, url |-> url, title |-> title, added_time |-> added_time,
     folder |-> folder, domain |-> domain]

(***************************************************************************)
(* app/scheduler.py: filtering of a snapshot.                              *)
(***************************************************************************)
\* title or ""
OrEmpty(x) == IF x = NULL THEN "" ELSE x

\* the comparison with the watermark made non-strict
is_new_or_equal(ts, watermark) == ts >= watermark

\* scheduler.py:170 and :70, main.py:449: the comparison with the watermark
is_new(ts, watermark) == ts > watermark

\* the loop of update_history over history_entries (lines 157-182)
RECURSIVE filter_history(_, _, _, _)
filter_history(entries, watermark, acc, processed_urls_times) ==
    IF entries = <<>> THEN acc
    ELSE LET e == Head(entries)
             rest == Tail(entries)
             normalized_visit_time == normalize_datetime(e.visit_time)
             entry_key == <<e.url, timestamp(normalized_visit_time)>>
             domain == netloc(e.url)
             skip == filter_history(rest, watermark, acc, processed_urls_times)
         IN  IF e.url = NoUrl \/ e.visit_time = NoTime THEN skip
             ELSE IF normalized_visit_time = NoTime THEN skip
             ELSE IF ~is_new(timestamp(normalized_visit_time), watermark)
                  THEN skip
             ELSE IF entry_key \in processed_urls_times THEN skip
             ELSE IF is_domain_ignored(domain, ExcludedDomains) THEN skip
             ELSE filter_history(rest, watermark,
                      Append(acc, [time |-> normalized_visit_time,
                                   url |-> e.url, title |-> e.title,
                                   domain |-> domain, src |-> e]),
                      processed_urls_times \cup {entry_key})

\* the loop of update_history (lines 157-182) raises: an entry it does not
\* skip has a timestamp that _normalize_datetime cannot convert (line 164),
\* or is new, not a duplicate, and has a url that urlparse rejects (line 175)
RECURSIVE history_loop_raises(_, _, _)
history_loop_raises(entries, watermark, processed_urls_times) ==
    IF entries = <<>> THEN FALSE
    ELSE LET e == Head(entries)
             rest == Tail(entries)
             normalized_visit_time == normalize_datetime(e.visit_time)
             entry_key == <<e.url, timestamp(normalized_visit_time)>>
             skip == history_loop_raises(rest, watermark, processed_urls_times)
         IN  IF e.url = NoUrl \/ e.visit_time = NoTime THEN skip
             ELSE IF normalize_raises(e.visit_time) THEN TRUE
             ELSE IF ~is_new(timestamp(normalized_visit_time), watermark)
                  THEN skip
             ELSE IF entry_key \in processed_urls_times THEN skip
             ELSE IF urlparse_raises(e.url) THEN TRUE
             ELSE IF is_domain_ignored(netloc(e.url), ExcludedDomains) THEN skip
             ELSE history_loop_raises(rest, watermark,
                                      processed_urls_times \cup {entry_key})

\* the loop of update_bookmarks (lines 59-78) raises, at line 64 or line 70
RECURSIVE bookmarks_loop_raises(_, _, _)
bookmarks_loop_raises(entries, watermark, processed_urls) ==
    IF entries = <<>> THEN FALSE
    ELSE LET e == Head(entries)
             rest == Tail(entries)
             normalized_added_time == normalize_datetime(e.added_time)
             skip == bookmarks_loop_raises(rest, watermark, processed_urls)
         IN  IF e.url = NoUrl \/ e.url \in processed_urls THEN skip
             ELSE IF normalize_raises(e.added_time) THEN TRUE
             ELSE IF normalized_added_time = NoTime THEN skip
             ELSE IF ~is_new(timestamp(normalized_added_time), watermark)
                  THEN skip
             ELSE IF urlparse_raises(e.url) THEN TRUE
             ELSE IF is_domain_ignored(netloc(e.url), ExcludedDomains) THEN skip
             ELSE bookmarks_loop_raises(rest, watermark,
                                        processed_urls \cup {e.url})

\* the loop of update_bookmarks over bookmarks (lines 59-78)
RECURSIVE filter_bookmarks(_, _, _, _)
filter_bookmarks(entries, watermark, acc, processed_urls) ==
    IF entries = <<>> THEN acc
    ELSE LET e == Head(entries)
             rest == Tail(entries)
             normalized_added_time == normalize_datetime(e.added_time)
             domain == netloc(e.url)
             skip == filter_bookmarks(rest, watermark, acc, processed_urls)
         IN  IF e.url = NoUrl \/ e.url \in processed_urls THEN skip
             ELSE IF normalized_added_time = NoTime THEN skip
             ELSE IF ~is_new(timestamp(normalized_added_time), watermark)
                  THEN skip
             ELSE IF is_domain_ignored(domain, ExcludedDomains) THEN skip
             ELSE filter_bookmarks(rest, watermark,
                      Append(acc, [time |-> normalized_added_time,
                                   url |-> e.url, title |-> e.title,
                                   folder |-> e.folder, domain |-> domain,
                                   src |-> e]),
                      processed_urls \cup {e.url})

\* the list comprehension of process_browser_history (main.py:447-450)
RECURSIVE filter_import(_, _)
filter_import(entries, watermark) ==
    IF entries = <<>> THEN <<>>
    ELSE LET e == Head(entries)
             rest == filter_import(Tail(entries), watermark)
         IN  IF is_new(timestamp(e.visit_time), watermark)
             THEN <<[time |-> e.visit_time, url |-> e.url, title |-> e.title,
                     domain |-> netloc(e.url), src |-> e]>> \o rest
             ELSE rest

\* the rows a session holds for the surviving history entries (lines 194-212)
history_rows(entries) ==
    [i \in 1..Len(entries) |->
        HistoryEntry(entries[i].url, OrEmpty(entries[i].title),
                     entries[i].time, entries[i].domain)]

\* the rows a session holds for the surviving bookmarks (lines 91-106)
bookmark_rows(entries) ==
    [i \in 1..Len(entries) |->
        Bookmark(entries[i].url, OrEmpty(entries[i].title), entries[i].time,
                 OrEmpty(entries[i].folder), entries[i].domain)]

(***************************************************************************)
(* Initial state: a fresh database, the process starting up.               *)
(***************************************************************************)
StartPc == [import |-> "i_begin", bookmarks |-> "b_wait", history |-> "h_wait"]

NoCycle ==
    /\ current_timestamp = [t \in Tasks |-> 0]
    /\ last_timestamp = [t \in Tasks |-> 0]
    /\ new_entries = [t \in Tasks |-> <<>>]
    /\ session = [t \in Tasks |-> <<>>]
    /\ cursor = 1
    /\ fetched = [t \in Tasks |-> {}]
    /\ visible = [t \in Tasks |-> 0]
    /\ failed = [t \in Tasks |-> FALSE]

NoFilter ==
    /\ fHost = <<>>
    /\ fPatterns = {}
    /\ fResult = [impl |-> "none", out |-> FALSE]

\* the enrichment worker and the page handler are not running
NoEnrich ==
    /\ w_pc = "w_off"
    /\ entries_to_process = <<>>
    /\ entry_index = 1
    /\ w_result = NULL
    /\ w_markdown = NULL
    /\ crawled = {}
    /\ crawl_failed = {}
    /\ ws_pc = "ws_off"
    /\ ws_entry = NULL

\* no search request
NoSearch ==
    /\ sQuery = NULL
    /\ sResult = [impl |-> "none"]

\* the schema objects init_fts creates (database.py:99-133): the virtual
\* table and its three triggers
FtsObjects == {"history_fts", "history_ai", "history_ad", "history_au"}

\* no text is being cleaned
NoClean ==
    /\ cText = <<>>
    /\ cResult = [done |-> FALSE, out |-> <<>>]

\* init_fts has run at import time (database.py:140), no reindex is running
NoReindex ==
    /\ fts_objects = FtsObjects
    /\ r_pc = "r_off"
    /\ r_before = [objects |-> {}, rows |-> {}, nrow |-> 0]

Init ==
    /\ clock = 1
    /\ faults = 0
    /\ srcHistory = {}
    /\ srcBookmarks = {}
    /\ last_processed = {}
    /\ history = <<>>
    /\ bookmarks = <<>>
    /\ history_fts = {}
    /\ fts_nrow = Cardinality(history_fts)
    /\ ingested = [t \in Tasks |-> {}]
    /\ db_lock = "free"
    /\ pc = StartPc
    /\ NoCycle
    /\ NoFilter
    /\ NoEnrich
    /\ NoSearch
    /\ NoReindex
    /\ NoClean

(***************************************************************************)
(* The environment: time passes, the browser records visits and bookmarks. *)
(* A visit is recorded no earlier than it happened, possibly later.        *)
(***************************************************************************)
Tick ==
    /\ clock < MaxClock
    /\ clock' = clock + 1
    /\ UNCHANGED <<faults, srcVars, dbVars, db_lock, pc, cycleVars, filterVars,
                   enrichVars, searchVars,
                   reindexVars, readerVars>>

Visit ==
    /\ \E v \in Visits \ srcHistory :
          /\ timestamp(v.visit_time) <= clock
          /\ srcHistory' = srcHistory \cup {v}
    /\ UNCHANGED <<clock, faults, srcBookmarks, dbVars, db_lock, pc, cycleVars,
                   filterVars,
                   enrichVars, searchVars,
                   reindexVars, readerVars>>

AddBookmark ==
    /\ \E b \in Bookmarks \ srcBookmarks :
          /\ timestamp(b.added_time) <= clock
          /\ srcBookmarks' = srcBookmarks \cup {b}
    /\ UNCHANGED <<clock, faults, srcHistory, dbVars, db_lock, pc, cycleVars,
                   filterVars,
                   enrichVars, searchVars,
                   reindexVars, readerVars>>

\* the process dies and is started again: the database and the browser's
\* data survive, everything in memory is lost
Crash ==
    /\ faults < MaxFaults
    /\ faults' = faults + 1
    /\ pc' = StartPc
    /\ db_lock' = "free"
    /\ current_timestamp' = [t \in Tasks |-> 0]
    /\ last_timestamp' = [t \in Tasks |-> 0]
    /\ new_entries' = [t \in Tasks |-> <<>>]
    /\ session' = [t \in Tasks |-> <<>>]
    /\ cursor' = 1
    /\ fetched' = [t \in Tasks |-> {}]
    /\ visible' = [t \in Tasks |-> 0]
    /\ failed' = [t \in Tasks |-> FALSE]
    /\ UNCHANGED <<clock, srcVars, dbVars, filterVars,
                   enrichVars, searchVars,
                   reindexVars, readerVars>>

(***************************************************************************)
(* Steps shared by the three ingestion paths.                              *)
(***************************************************************************)
\* a failure: an exception raised by the storage or by the History Source
Fault ==
    /\ faults < MaxFaults
    /\ faults' = faults + 1

\* the locals of a finished cycle go out of scope
Forget(t) ==
    /\ current_timestamp' = [current_timestamp EXCEPT ![t] = 0]
    /\ last_timestamp' = [last_timestamp EXCEPT ![t] = 0]
    /\ new_entries' = [new_entries EXCEPT ![t] = <<>>]
    /\ session' = [session EXCEPT ![t] = <<>>]
    /\ fetched' = [fetched EXCEPT ![t] = {}]
    /\ visible' = [visible EXCEPT ![t] = 0]
    /\ failed' = [failed EXCEPT ![t] = FALSE]

(***************************************************************************)
(* app/main.py: startup_event runs process_browser_history, then           *)
(* update_bookmarks, then creates the update_history task.                 *)
(***************************************************************************)
\* main.py:436-452: fetch, record now, read the watermark, keep the new entries
ImpBegin ==
    /\ pc.import = "i_begin"
    /\ \E history_list \in Perms(srcHistory) :
          LET watermark ==
                  get_last_processed_timestamp(last_processed, SourceKey.import)
              raises == \E e \in srcHistory : e.visit_time = NoTime
              entries == IF raises THEN <<>>
                         ELSE filter_import(history_list, watermark)
          IN  /\ current_timestamp' = [current_timestamp EXCEPT !.import = clock]
              /\ last_timestamp' = [last_timestamp EXCEPT !.import = watermark]
              /\ new_entries' = [new_entries EXCEPT !.import = entries]
              /\ pc' = [pc EXCEPT !.import =
                           IF entries = <<>> THEN "i_end" ELSE "i_loop"]
    /\ fetched' = [fetched EXCEPT !.import = srcHistory]
    /\ visible' = [visible EXCEPT !.import = 0]
    /\ failed' = [failed EXCEPT !.import = FALSE]
    /\ UNCHANGED <<clock, faults, srcVars, dbVars, db_lock, session, cursor,
                   filterVars,
                   enrichVars, searchVars,
                   reindexVars, readerVars>>

\* main.py:436 raises, caught at main.py:485
ImpFetchFail ==
    /\ pc.import = "i_begin"
    /\ Fault
    /\ pc' = [pc EXCEPT !.import = "i_end"]
    /\ UNCHANGED <<clock, srcVars, dbVars, db_lock, cycleVars, filterVars,
                   enrichVars, searchVars,
                   reindexVars, readerVars>>

\* main.py:455-477, one iteration: an ignored domain is skipped, any other
\* entry is added and committed in a session of its own
ImpEntry ==
    /\ pc.import = "i_loop"
    /\ cursor <= Len(new_entries.import)
    /\ LET e == new_entries.import[cursor]
           row == HistoryEntry(e.url, e.title, e.time, e.domain)
       IN  IF is_domain_ignored(e.domain, ExcludedDomains)
           THEN UNCHANGED <<history, history_fts, fts_nrow, visible, ingested>>
           ELSE /\ history' = Inserted(history, <<row>>)
                /\ history_fts' = TriggerInsert(history_fts, history, <<row>>)
                /\ fts_nrow' = fts_nrow + Len(<<row>>)
                /\ visible' = [visible EXCEPT !.import = @ + 1]
                /\ ingested' = [ingested EXCEPT !.import = @ \cup {e.src}]
    /\ cursor' = cursor + 1
    /\ UNCHANGED <<clock, faults, srcVars, last_processed, bookmarks, db_lock,
                   pc, current_timestamp, last_timestamp, new_entries, session,
                   fetched, failed, filterVars,
                   enrichVars, searchVars,
                   reindexVars, readerVars>>

\* main.py:473-475: the commit of one entry raises and is rolled back
ImpEntryFail ==
    /\ pc.import = "i_loop"
    /\ cursor <= Len(new_entries.import)
    /\ ~is_domain_ignored(new_entries.import[cursor].domain, ExcludedDomains)
    /\ Fault
    /\ cursor' = cursor + 1
    /\ failed' = [failed EXCEPT !.import = TRUE]
    /\ UNCHANGED <<clock, srcVars, dbVars, db_lock, pc, current_timestamp,
                   last_timestamp, new_entries, session, fetched, visible,
                   filterVars,
                   enrichVars, searchVars,
                   reindexVars, readerVars>>

\* main.py:480: after the loop, the watermark is set to the recorded now
ImpWatermark ==
    /\ pc.import = "i_loop"
    /\ cursor > Len(new_entries.import)
    /\ last_processed' =
           update_last_processed_timestamp(last_processed, SourceKey.import,
                                           current_timestamp.import)
    /\ pc' = [pc EXCEPT !.import = "i_end"]
    /\ UNCHANGED <<clock, faults, srcVars, history, bookmarks, history_fts, fts_nrow,
                   ingested,
                   db_lock, cycleVars, filterVars,
                   enrichVars, searchVars,
                   reindexVars, readerVars>>

\* main.py:480 raises, caught at main.py:485
ImpWatermarkFail ==
    /\ pc.import = "i_loop"
    /\ cursor > Len(new_entries.import)
    /\ Fault
    /\ pc' = [pc EXCEPT !.import = "i_end"]
    /\ UNCHANGED <<clock, srcVars, dbVars, db_lock, cycleVars, filterVars,
                   enrichVars, searchVars,
                   reindexVars, readerVars>>

\* main.py:61-64: process_browser_history returns, update_bookmarks is called
ImpReturn ==
    /\ pc.import = "i_end"
    /\ pc' = [pc EXCEPT !.import = "i_done", !.bookmarks = "b_begin"]
    /\ Forget("import")
    /\ cursor' = 1
    /\ UNCHANGED <<clock, faults, srcVars, dbVars, db_lock, filterVars,
                   enrichVars, searchVars,
                   reindexVars, readerVars>>

(***************************************************************************)
(* app/scheduler.py: HistoryScheduler.update_bookmarks.                    *)
(***************************************************************************)
\* lines 45-49: record now, read the watermark
BmBegin ==
    /\ pc.bookmarks = "b_begin"
    /\ current_timestamp' = [current_timestamp EXCEPT !.bookmarks = clock]
    /\ last_timestamp' =
           [last_timestamp EXCEPT !.bookmarks =
               get_last_processed_timestamp(last_processed, SourceKey.bookmarks)]
    /\ new_entries' = [new_entries EXCEPT !.bookmarks = <<>>]
    /\ fetched' = [fetched EXCEPT !.bookmarks = {}]
    /\ visible' = [visible EXCEPT !.bookmarks = 0]
    /\ failed' = [failed EXCEPT !.bookmarks = FALSE]
    /\ pc' = [pc EXCEPT !.bookmarks = "b_fetch"]
    /\ UNCHANGED <<clock, faults, srcVars, dbVars, db_lock, session, cursor,
                   filterVars,
                   enrichVars, searchVars,
                   reindexVars, readerVars>>

\* lines 52-82: fetch the snapshot and filter it; an exception of the loop
\* is caught at line 132 and ends the cycle
BmFetch ==
    /\ pc.bookmarks = "b_fetch"
    /\ \E snapshot \in Perms(srcBookmarks) :
          LET raises == bookmarks_loop_raises(snapshot,
                                              last_timestamp.bookmarks, {})
              entries == IF raises THEN <<>>
                         ELSE filter_bookmarks(snapshot,
                                               last_timestamp.bookmarks,
                                               <<>>, {})
          IN  /\ new_entries' = [new_entries EXCEPT !.bookmarks = entries]
              /\ pc' = [pc EXCEPT !.bookmarks =
                           IF raises THEN "b_end"
                           ELSE IF entries # <<>> THEN "b_lock"
                           ELSE "b_empty"]
    /\ fetched' = [fetched EXCEPT !.bookmarks = srcBookmarks]
    /\ UNCHANGED <<clock, faults, srcVars, dbVars, db_lock, current_timestamp,
                   last_timestamp, session, cursor, visible, failed, filterVars,
                   enrichVars, searchVars,
                   reindexVars, readerVars>>

\* line 52 raises, caught at line 132
BmFetchFail ==
    /\ pc.bookmarks = "b_fetch"
    /\ Fault
    /\ pc' = [pc EXCEPT !.bookmarks = "b_end"]
    /\ UNCHANGED <<clock, srcVars, dbVars, db_lock, cycleVars, filterVars,
                   enrichVars, searchVars,
                   reindexVars, readerVars>>

\* lines 86-106: take db_lock, open a session, add every new bookmark to it
BmLock ==
    /\ pc.bookmarks = "b_lock"
    /\ db_lock = "free"
    /\ db_lock' = "bookmarks"
    /\ session' = [session EXCEPT !.bookmarks =
                      bookmark_rows(new_entries.bookmarks)]
    /\ pc' = [pc EXCEPT !.bookmarks = "b_commit"]
    /\ UNCHANGED <<clock, faults, srcVars, dbVars, current_timestamp,
                   last_timestamp, new_entries, cursor, fetched, visible,
                   failed, filterVars,
                   enrichVars, searchVars,
                   reindexVars, readerVars>>

\* line 109: db.commit() makes the whole session visible at once
BmCommit ==
    /\ pc.bookmarks = "b_commit"
    /\ bookmarks' = Inserted(bookmarks, session.bookmarks)
    /\ ingested' = [ingested EXCEPT !.bookmarks =
                       @ \cup {new_entries.bookmarks[i].src :
                                   i \in DOMAIN new_entries.bookmarks}]
    /\ visible' = [visible EXCEPT !.bookmarks = Len(session.bookmarks)]
    /\ session' = [session EXCEPT !.bookmarks = <<>>]
    /\ pc' = [pc EXCEPT !.bookmarks = "b_mark"]
    /\ UNCHANGED <<clock, faults, srcVars, last_processed, history, history_fts, fts_nrow,
                   db_lock, current_timestamp, last_timestamp, new_entries,
                   cursor, fetched, failed, filterVars,
                   enrichVars, searchVars,
                   reindexVars, readerVars>>

\* lines 122-124: db.commit() raises, the session is rolled back
BmCommitFail ==
    /\ pc.bookmarks = "b_commit"
    /\ Fault
    /\ session' = [session EXCEPT !.bookmarks = <<>>]
    /\ failed' = [failed EXCEPT !.bookmarks = TRUE]
    /\ db_lock' = "free"
    /\ pc' = [pc EXCEPT !.bookmarks = "b_end"]
    /\ UNCHANGED <<clock, srcVars, dbVars, current_timestamp, last_timestamp,
                   new_entries, cursor, fetched, visible, filterVars,
                   enrichVars, searchVars,
                   reindexVars, readerVars>>

\* line 112: after the commit, still under db_lock, advance the watermark
BmWatermark ==
    /\ pc.bookmarks = "b_mark"
    /\ last_processed' =
           update_last_processed_timestamp(last_processed, SourceKey.bookmarks,
                                           current_timestamp.bookmarks)
    /\ db_lock' = "free"
    /\ pc' = [pc EXCEPT !.bookmarks = "b_end"]
    /\ UNCHANGED <<clock, faults, srcVars, history, bookmarks, history_fts, fts_nrow,
                   ingested,
                   cycleVars, filterVars,
                   enrichVars, searchVars,
                   reindexVars, readerVars>>

\* lines 125-129: nothing survived, the watermark advances all the same
BmEmpty ==
    /\ pc.bookmarks = "b_empty"
    /\ last_processed' =
           update_last_processed_timestamp(last_processed, SourceKey.bookmarks,
                                           current_timestamp.bookmarks)
    /\ pc' = [pc EXCEPT !.bookmarks = "b_end"]
    /\ UNCHANGED <<clock, faults, srcVars, history, bookmarks, history_fts, fts_nrow,
                   ingested,
                   db_lock, cycleVars, filterVars,
                   enrichVars, searchVars,
                   reindexVars, readerVars>>

\* line 112 or line 128 raises: caught at line 122 or line 132
BmWatermarkFail ==
    /\ pc.bookmarks \in {"b_mark", "b_empty"}
    /\ Fault
    /\ db_lock' = IF db_lock = "bookmarks" THEN "free" ELSE db_lock
    /\ pc' = [pc EXCEPT !.bookmarks = "b_end"]
    /\ UNCHANGED <<clock, srcVars, dbVars, cycleVars, filterVars,
                   enrichVars, searchVars,
                   reindexVars, readerVars>>

\* main.py:64-67: update_bookmarks returns, the update_history task is created
BmReturn ==
    /\ pc.bookmarks = "b_end"
    /\ pc' = [pc EXCEPT !.bookmarks = "b_done", !.history = "h_sleep"]
    /\ Forget("bookmarks")
    /\ UNCHANGED <<clock, faults, srcVars, dbVars, db_lock, cursor, filterVars,
                   enrichVars, searchVars,
                   reindexVars, readerVars>>

(***************************************************************************)
(* app/scheduler.py: HistoryScheduler.update_history, the periodic loop.   *)
(***************************************************************************)
\* lines 139-147: the sleep is over; record now, read the watermark
HistBegin ==
    /\ pc.history = "h_sleep"
    /\ current_timestamp' = [current_timestamp EXCEPT !.history = clock]
    /\ last_timestamp' =
           [last_timestamp EXCEPT !.history =
               get_last_processed_timestamp(last_processed, SourceKey.history)]
    /\ new_entries' = [new_entries EXCEPT !.history = <<>>]
    /\ fetched' = [fetched EXCEPT !.history = {}]
    /\ visible' = [visible EXCEPT !.history = 0]
    /\ failed' = [failed EXCEPT !.history = FALSE]
    /\ pc' = [pc EXCEPT !.history = "h_fetch"]
    /\ UNCHANGED <<clock, faults, srcVars, dbVars, db_lock, session, cursor,
                   filterVars,
                   enrichVars, searchVars,
                   reindexVars, readerVars>>

\* lines 150-186: fetch the snapshot and filter it; an exception of the loop
\* is caught at line 234 and ends the cycle
HistFetch ==
    /\ pc.history = "h_fetch"
    /\ \E history_entries \in Perms(srcHistory) :
          LET raises == history_loop_raises(history_entries,
                                            last_timestamp.history, {})
              entries == IF raises THEN <<>>
                         ELSE filter_history(history_entries,
                                             last_timestamp.history, <<>>, {})
          IN  /\ new_entries' = [new_entries EXCEPT !.history = entries]
              /\ pc' = [pc EXCEPT !.history =
                           IF raises THEN "h_end"
                           ELSE IF entries # <<>> THEN "h_lock"
                           ELSE "h_empty"]
    /\ fetched' = [fetched EXCEPT !.history = srcHistory]
    /\ UNCHANGED <<clock, faults, srcVars, dbVars, db_lock, current_timestamp,
                   last_timestamp, session, cursor, visible, failed, filterVars,
                   enrichVars, searchVars,
                   reindexVars, readerVars>>

\* update_history with its handler around the loop: the exception ends the task
HistFetchFail_stops_loop ==
    /\ pc.history = "h_fetch"
    /\ Fault
    /\ pc' = [pc EXCEPT !.history = "h_dead"]
    /\ UNCHANGED <<clock, srcVars, dbVars, db_lock, cycleVars, filterVars,
                   enrichVars, searchVars,
                   reindexVars, readerVars>>

\* line 150 raises, caught at line 234 inside the loop
HistFetchFail ==
    /\ pc.history = "h_fetch"
    /\ Fault
    /\ pc' = [pc EXCEPT !.history = "h_end"]
    /\ UNCHANGED <<clock, srcVars, dbVars, db_lock, cycleVars, filterVars,
                   enrichVars, searchVars,
                   reindexVars, readerVars>>

\* update_history advancing the watermark before its commit
HistLock_marks_early ==
    /\ pc.history = "h_lock"
    /\ db_lock = "free"
    /\ db_lock' = "history"
    /\ session' = [session EXCEPT !.history = history_rows(new_entries.history)]
    /\ last_processed' =
           update_last_processed_timestamp(last_processed, SourceKey.history,
                                           current_timestamp.history)
    /\ pc' = [pc EXCEPT !.history = "h_commit"]
    /\ UNCHANGED <<clock, faults, srcVars, history, bookmarks, history_fts, fts_nrow,
                   ingested, current_timestamp, last_timestamp, new_entries,
                   cursor, fetched, visible, failed, filterVars,
                   enrichVars, searchVars,
                   reindexVars, readerVars>>

\* lines 189-212: take db_lock, open a session, add every new entry to it
HistLock ==
    /\ pc.history = "h_lock"
    /\ db_lock = "free"
    /\ db_lock' = "history"
    /\ session' = [session EXCEPT !.history = history_rows(new_entries.history)]
    /\ pc' = [pc EXCEPT !.history = "h_commit"]
    /\ UNCHANGED <<clock, faults, srcVars, dbVars, current_timestamp,
                   last_timestamp, new_entries, cursor, fetched, visible,
                   failed, filterVars,
                   enrichVars, searchVars,
                   reindexVars, readerVars>>

\* line 215: db.commit() makes the whole session visible at once; the insert
\* trigger writes the text index in the same transaction
HistCommit ==
    /\ pc.history = "h_commit"
    /\ history' = Inserted(history, session.history)
    /\ history_fts' = TriggerInsert(history_fts, history, session.history)
    /\ fts_nrow' = fts_nrow + Len(session.history)
    /\ ingested' = [ingested EXCEPT !.history =
                       @ \cup {new_entries.history[i].src :
                                   i \in DOMAIN new_entries.history}]
    /\ visible' = [visible EXCEPT !.history = Len(session.history)]
    /\ session' = [session EXCEPT !.history = <<>>]
    /\ pc' = [pc EXCEPT !.history = "h_mark"]
    /\ UNCHANGED <<clock, faults, srcVars, last_processed, bookmarks, db_lock,
                   current_timestamp, last_timestamp, new_entries, cursor,
                   fetched, failed, filterVars,
                   enrichVars, searchVars,
                   reindexVars, readerVars>>

\* lines 226-228: db.commit() raises, the session is rolled back
HistCommitFail ==
    /\ pc.history = "h_commit"
    /\ Fault
    /\ session' = [session EXCEPT !.history = <<>>]
    /\ failed' = [failed EXCEPT !.history = TRUE]
    /\ db_lock' = "free"
    /\ pc' = [pc EXCEPT !.history = "h_end"]
    /\ UNCHANGED <<clock, srcVars, dbVars, current_timestamp, last_timestamp,
                   new_entries, cursor, fetched, visible, filterVars,
                   enrichVars, searchVars,
                   reindexVars, readerVars>>

\* line 218: after the commit, still under db_lock, advance the watermark
HistWatermark ==
    /\ pc.history = "h_mark"
    /\ last_processed' =
           update_last_processed_timestamp(last_processed, SourceKey.history,
                                           current_timestamp.history)
    /\ db_lock' = "free"
    /\ pc' = [pc EXCEPT !.history = "h_end"]
    /\ UNCHANGED <<clock, faults, srcVars, history, bookmarks, history_fts, fts_nrow,
                   ingested,
                   cycleVars, filterVars,
                   enrichVars, searchVars,
                   reindexVars, readerVars>>

\* update_history leaving the watermark alone when nothing survived
HistEmpty_keeps_watermark ==
    /\ pc.history = "h_empty"
    /\ pc' = [pc EXCEPT !.history = "h_end"]
    /\ UNCHANGED <<clock, faults, srcVars, dbVars, db_lock, cycleVars,
                   filterVars, enrichVars, searchVars,
                   reindexVars, readerVars>>

\* lines 229-233: nothing survived, the watermark advances all the same
HistEmpty ==
    /\ pc.history = "h_empty"
    /\ last_processed' =
           update_last_processed_timestamp(last_processed, SourceKey.history,
                                           current_timestamp.history)
    /\ pc' = [pc EXCEPT !.history = "h_end"]
    /\ UNCHANGED <<clock, faults, srcVars, history, bookmarks, history_fts, fts_nrow,
                   ingested,
                   db_lock, cycleVars, filterVars,
                   enrichVars, searchVars,
                   reindexVars, readerVars>>

\* line 218 or line 232 raises: caught at line 226 or line 236
HistWatermarkFail ==
    /\ pc.history \in {"h_mark", "h_empty"}
    /\ Fault
    /\ db_lock' = IF db_lock = "history" THEN "free" ELSE db_lock
    /\ pc' = [pc EXCEPT !.history = "h_end"]
    /\ UNCHANGED <<clock, srcVars, dbVars, cycleVars, filterVars,
                   enrichVars, searchVars,
                   reindexVars, readerVars>>

\* lines 239-249: the cycle is over, the loop sleeps until the next one
HistSleep ==
    /\ pc.history = "h_end"
    /\ pc' = [pc EXCEPT !.history = "h_sleep"]
    /\ Forget("history")
    /\ UNCHANGED <<clock, faults, srcVars, dbVars, db_lock, cursor, filterVars,
                   enrichVars, searchVars,
                   reindexVars, readerVars>>

(***************************************************************************)
(* The specification of the synchronization engine.                        *)
(***************************************************************************)
Next ==
    \/ Tick \/ Visit \/ AddBookmark \/ Crash
    \/ ImpBegin \/ ImpFetchFail \/ ImpEntry \/ ImpEntryFail
    \/ ImpWatermark \/ ImpWatermarkFail \/ ImpReturn
    \/ BmBegin \/ BmFetch \/ BmFetchFail \/ BmLock \/ BmCommit \/ BmCommitFail
    \/ BmWatermark \/ BmEmpty \/ BmWatermarkFail \/ BmReturn
    \/ HistBegin \/ HistFetch \/ HistFetchFail \/ HistLock \/ HistCommit
    \/ HistCommitFail \/ HistWatermark \/ HistEmpty \/ HistWatermarkFail
    \/ HistSleep

Spec == Init /\ [][Next]_vars

\* the steps the tasks take by themselves: the event loop runs a task that is
\* ready, and every sleep ends
Progress ==
    \/ ImpBegin \/ ImpEntry \/ ImpWatermark \/ ImpReturn
    \/ BmBegin \/ BmFetch \/ BmLock \/ BmCommit \/ BmWatermark \/ BmEmpty
    \/ BmReturn
    \/ HistBegin \/ HistFetch \/ HistLock \/ HistCommit \/ HistWatermark
    \/ HistEmpty \/ HistSleep

\* the engine under fair scheduling; failures and restarts are finitely many
LiveSpec == Init /\ [][Next]_vars /\ WF_vars(Progress)

(***************************************************************************)
(* The specification of the sync cycles over raw snapshots: the browser's  *)
(* history and bookmarks hold repeated and malformed entries, the archive   *)
(* import is over, and the bookmarks run and the history loop take their   *)
(* cycles.                                                                 *)
(***************************************************************************)
\* visits of a raw snapshot: one visit twice (the same instant, read from two
\* profiles), a later visit of the same page, and visits without url, without
\* timestamp, with a timestamp that has no UTC conversion, with a bad url
RawVisits ==
    { [visit_time |-> Aware(1, 0), url |-> Url(HostA, <<"/">>), title |-> "t1"],
      [visit_time |-> Naive(1 + LocalUtcOffset), url |-> Url(HostA, <<"/">>),
       title |-> "t1"],
      [visit_time |-> Aware(2, 0), url |-> Url(HostA, <<"/">>), title |-> "t2"],
      [visit_time |-> Aware(1, 0), url |-> NoUrl, title |-> "t3"],
      [visit_time |-> NoTime, url |-> Url(HostSub, <<"/">>), title |-> "t4"],
      [visit_time |-> Unconvertible, url |-> Url(HostSub, <<"/">>),
       title |-> "t5"],
      [visit_time |-> Aware(1, 0), url |-> BadUrl, title |-> "t6"] }

RawBookmarks ==
    { [added_time |-> Aware(1, 0), url |-> Url(HostA, <<"/">>), title |-> "b1",
       folder |-> "f"],
      [added_time |-> Aware(2, 0), url |-> Url(HostA, <<"/">>), title |-> "b1",
       folder |-> "g"],
      [added_time |-> NoTime, url |-> Url(HostSub, <<"/">>), title |-> "b4",
       folder |-> "f"],
      [added_time |-> Unconvertible, url |-> Url(HostSub, <<"/">>),
       title |-> "b5", folder |-> "f"],
      [added_time |-> Aware(1, 0), url |-> BadUrl, title |-> "b6",
       folder |-> "f"] }

CycleInit ==
    /\ clock = MaxClock
    /\ faults = 0
    /\ srcHistory \in SUBSET RawVisits
    /\ srcBookmarks \in SUBSET RawBookmarks
    /\ last_processed = {}
    /\ history = <<>>
    /\ bookmarks = <<>>
    /\ history_fts = {}
    /\ fts_nrow = Cardinality(history_fts)
    /\ ingested = [t \in Tasks |-> {}]
    /\ db_lock = "free"
    /\ pc = [StartPc EXCEPT !.import = "i_done", !.bookmarks = "b_begin"]
    /\ NoCycle
    /\ NoFilter
    /\ NoEnrich
    /\ NoSearch
    /\ NoReindex
    /\ NoClean

CycleNext ==
    \/ BmBegin \/ BmFetch \/ BmLock \/ BmCommit \/ BmWatermark \/ BmEmpty
    \/ BmReturn
    \/ HistBegin \/ HistFetch \/ HistLock \/ HistCommit \/ HistWatermark
    \/ HistEmpty \/ HistSleep

CycleSpec == CycleInit /\ [][CycleNext]_vars

(***************************************************************************)
(* The specification of the loops: the same cycles over small snapshots,   *)
(* with the failures of the History Source and of the storage, under fair  *)
(* scheduling.                                                             *)
(***************************************************************************)
MaxSnapshot == 2

LoopInit ==
    /\ CycleInit
    /\ Cardinality(srcHistory) <= MaxSnapshot
    /\ Cardinality(srcBookmarks) <= MaxSnapshot

LoopNext ==
    \/ BmBegin \/ BmFetch \/ BmFetchFail \/ BmLock \/ BmCommit \/ BmCommitFail
    \/ BmWatermark \/ BmEmpty \/ BmWatermarkFail \/ BmReturn
    \/ HistBegin \/ HistFetch \/ HistFetchFail \/ HistLock \/ HistCommit
    \/ HistCommitFail \/ HistWatermark \/ HistEmpty \/ HistWatermarkFail
    \/ HistSleep

\* the event loop runs a task that is ready, and every sleep ends
LoopSpec == LoopInit /\ [][LoopNext]_vars /\ WF_vars(Progress)

(***************************************************************************)
(* The specification of the domain filters: each of the three              *)
(* implementations is applied to a host and a configured pattern set.      *)
(***************************************************************************)
Hosts == StringsUpTo(HostChars, MaxHostLen)
Patterns == StringsUpTo(PatChars, MaxPatLen)

\* a pattern of the default configuration (config.py:70-75) and a path pattern
ExtraPatterns == {<<"1", ".", "*">>, <<"b", "/", "b">>}

PatternSets ==
    {{}} \cup {{p} : p \in Patterns}
         \cup {{p, q} : p \in Patterns, q \in ExtraPatterns}

UrlPaths == {<<>>, <<"/", "b">>}

FilterInit ==
    /\ clock = 1
    /\ faults = 0
    /\ srcHistory = {}
    /\ srcBookmarks = {}
    /\ last_processed = {}
    /\ history = <<>>
    /\ bookmarks = <<>>
    /\ history_fts = {}
    /\ fts_nrow = Cardinality(history_fts)
    /\ ingested = [t \in Tasks |-> {}]
    /\ db_lock = "free"
    /\ pc = StartPc
    /\ NoCycle
    /\ fHost \in Hosts
    /\ fPatterns \in PatternSets
    /\ fResult = [impl |-> "none", out |-> FALSE]
    /\ NoEnrich
    /\ NoSearch
    /\ NoReindex
    /\ NoClean

\* the scheduler asks Config.is_domain_ignored (scheduler.py:72, 176, 288)
ApplyIgnored ==
    /\ fResult.impl = "none"
    /\ fResult' = [impl |-> "Config",
                   out |-> is_domain_ignored(fHost, fPatterns)]
    /\ UNCHANGED <<clock, faults, srcVars, dbVars, db_lock, pc, cycleVars,
                   fHost, fPatterns,
                   enrichVars, searchVars,
                   reindexVars, readerVars>>

\* the page reader asks ReaderConfig.is_domain_excluded
ApplyExcluded ==
    /\ fResult.impl = "none"
    /\ fResult' = [impl |-> "ReaderConfig",
                   out |-> is_domain_excluded(fHost, fPatterns)]
    /\ UNCHANGED <<clock, faults, srcVars, dbVars, db_lock, pc, cycleVars,
                   fHost, fPatterns,
                   enrichVars, searchVars,
                   reindexVars, readerVars>>

\* the crawler asks DomainExclusions.is_excluded for a URL (base_crawler.py:28)
ApplyUrl ==
    /\ fResult.impl = "none"
    /\ \E path \in UrlPaths :
          LET url == IF fHost = <<>> /\ path = <<>> THEN NoUrl
                     ELSE Url(fHost, path)
          IN  fResult' = [impl |-> "DomainExclusions", path |-> path,
                          out |-> is_excluded(url, load_config(fPatterns))]
    /\ UNCHANGED <<clock, faults, srcVars, dbVars, db_lock, pc, cycleVars,
                   fHost, fPatterns,
                   enrichVars, searchVars,
                   reindexVars, readerVars>>

FilterNext == ApplyIgnored \/ ApplyExcluded \/ ApplyUrl

FilterSpec == FilterInit /\ [][FilterNext]_vars

(***************************************************************************)
(* app/database.py, init_fts: the text index and its three triggers.  The  *)
(* table history is a sequence indexed by id; a deleted row leaves the     *)
(* tombstone Deleted, and the tombstones at the end are dropped, since the *)
(* next id is one more than the largest id in the table.                   *)
(***************************************************************************)
Deleted == [id |-> 0, url |-> NoUrl, title |-> NULL, visit_time |-> NoTime,
            domain |-> <<>>, markdown_content |-> NULL,
            last_content_update |-> NoTime]

\* the ids of the rows of the table
Ids(tbl) == {i \in DOMAIN tbl : tbl[i] # Deleted}

\* the index row that mirrors a row of history
FtsRow(row) ==
    [rowid |-> row.id, title |-> row.title,
     markdown_content |-> row.markdown_content, domain |-> row.domain,
     visit_time |-> row.visit_time]

\* the 'delete' command of the index: the row with these very values goes
FtsDelete(fts, old) == fts \ {FtsRow(old)}

\* trigger history_au forgetting to remove the old index row
TriggerUpdate_keeps_old(fts, old, new) == fts \cup {FtsRow(new)}

\* trigger history_au: the old index row is deleted, the new one inserted
TriggerUpdate(fts, old, new) == FtsDelete(fts, old) \cup {FtsRow(new)}

\* trigger history_ad: the index row of the deleted row is deleted
TriggerDelete(fts, old) == FtsDelete(fts, old)

RECURSIVE DropTrailing(_)
DropTrailing(tbl) ==
    IF tbl # <<>> /\ tbl[Len(tbl)] = Deleted
    THEN DropTrailing(SubSeq(tbl, 1, Len(tbl) - 1))
    ELSE tbl

\* DELETE FROM history WHERE id = i
DeleteFrom(tbl, i) == DropTrailing([tbl EXCEPT ![i] = Deleted])

\* the statement without its WHERE clause: every row gets the content
UpdateContent_every_row(tbl, i, content) ==
    [j \in DOMAIN tbl |->
        IF tbl[j] = Deleted THEN tbl[j]
        ELSE [tbl[j] EXCEPT !.markdown_content = content]]

\* UPDATE history SET markdown_content = content WHERE id = i
UpdateContent(tbl, i, content) ==
    [tbl EXCEPT ![i] = [@ EXCEPT !.markdown_content = content]]

\* what crawler.arun yields for a page: its markdown, or none, kept as ""
\* (scheduler.py:307, :312)
Markdown == {"", "m"}

(***************************************************************************)
(* app/scheduler.py, _process_markdown_batch: the enrichment worker.  The  *)
(* batch size limit(10) is scaled down to MaxBatch.                        *)
(***************************************************************************)
\* line 260: markdown_content is NULL or the empty string
needs_markdown(row) ==
    row.markdown_content = NULL \/ row.markdown_content = ""

\* lines 259-261: the batches the query can return: at most MaxBatch of the
\* rows that need markdown, oldest visit first, rows of equal visit_time in
\* any order
Batches(tbl) ==
    LET cands == {i \in Ids(tbl) : needs_markdown(tbl[i])}
        n == IF Cardinality(cands) < MaxBatch THEN Cardinality(cands)
             ELSE MaxBatch
        sorted == {q \in Perms(cands) :
                      \A j \in 1..(Len(q) - 1) :
                          timestamp(tbl[q[j]].visit_time)
                              <= timestamp(tbl[q[j + 1]].visit_time)}
    IN  {[j \in 1..n |-> tbl[q[j]]] : q \in sorted}

\* the entry the loop of lines 275-347 stands at
entry == entries_to_process[entry_index]

\* the loop goes on to the next entry
NextEntry ==
    /\ entry_index' = entry_index + 1
    /\ w_result' = NULL
    /\ w_markdown' = NULL
    /\ w_pc' = "w_entry"

\* line 256: the sleep is over, the worker takes db_lock for its query
WorkerBegin ==
    /\ w_pc = "w_sleep"
    /\ db_lock = "free"
    /\ db_lock' = "worker"
    /\ w_pc' = "w_select"
    /\ UNCHANGED <<clock, faults, srcVars, dbVars, pc, cycleVars, filterVars,
                   entries_to_process, entry_index, w_markdown, w_result,
                   crawled, crawl_failed, ws_pc,
                   ws_entry, searchVars,
                   reindexVars, readerVars>>

\* WorkerSelect keeping db_lock for the rest of the batch
WorkerSelect_keeps_lock ==
    /\ w_pc = "w_select"
    /\ \E batch \in Batches(history) :
          /\ entries_to_process' = batch
          /\ w_pc' = IF batch = <<>> THEN "w_sleep" ELSE "w_entry"
          /\ db_lock' = IF batch = <<>> THEN "free" ELSE "worker"
    /\ entry_index' = 1
    /\ UNCHANGED <<clock, faults, srcVars, dbVars, pc, cycleVars, filterVars,
                   w_markdown, w_result, crawled, crawl_failed, ws_pc,
                   ws_entry, searchVars,
                   reindexVars, readerVars>>

\* lines 257-269: the query under db_lock; the rows are detached, the lock is
\* released; with no row the batch is over
WorkerSelect ==
    /\ w_pc = "w_select"
    /\ \E batch \in Batches(history) :
          /\ entries_to_process' = batch
          /\ w_pc' = IF batch = <<>> THEN "w_sleep" ELSE "w_entry"
    /\ entry_index' = 1
    /\ db_lock' = "free"
    /\ UNCHANGED <<clock, faults, srcVars, dbVars, pc, cycleVars, filterVars,
                   w_markdown, w_result, crawled, crawl_failed, ws_pc,
                   ws_entry, searchVars,
                   reindexVars, readerVars>>

\* lines 287-291: the domain of the entry's url is ignored, the entry is
\* skipped and keeps its content
WorkerSkip ==
    /\ w_pc = "w_entry"
    /\ entry_index <= Len(entries_to_process)
    /\ is_domain_ignored(netloc(entry.url), ExcludedDomains)
    /\ NextEntry
    /\ UNCHANGED <<clock, faults, srcVars, dbVars, db_lock, pc, cycleVars,
                   filterVars, entries_to_process, crawled, crawl_failed,
                   ws_pc, ws_entry,
                   searchVars,
                   reindexVars, readerVars>>

\* lines 298-304: the domain is not ignored, crawler.arun is called and awaited
WorkerCrawl ==
    /\ w_pc = "w_entry"
    /\ entry_index <= Len(entries_to_process)
    /\ ~is_domain_ignored(netloc(entry.url), ExcludedDomains)
    /\ crawled' = crawled \cup {entry.id}
    /\ w_pc' = "w_crawl"
    /\ UNCHANGED crawl_failed
    /\ UNCHANGED <<clock, faults, srcVars, dbVars, db_lock, pc, cycleVars,
                   filterVars, entries_to_process, entry_index, w_markdown,
                   w_result,
                   ws_pc, ws_entry, searchVars,
                   reindexVars, readerVars>>

\* what crawler.arun returns to the worker: markdown, empty markdown, or no
\* result or a result without markdown (None)
CrawlMarkdown == {NULL, "", "m"}

\* the worker keeping None when the crawl yields no text
markdown_content_keeps_none(result) == result

\* lines 306-313: `if result and result.markdown` keeps the markdown, else
\* markdown_content = ""
markdown_content_of(result) ==
    IF result # NULL /\ result # "" THEN result ELSE ""

\* lines 304-315: the crawl returns; should_update_db = True
WorkerCrawled ==
    /\ w_pc = "w_crawl"
    /\ \E result \in CrawlMarkdown :
          /\ w_result' = result
          /\ w_markdown' = markdown_content_of(result)
    /\ crawl_failed' = crawl_failed \ {entry.id}
    /\ w_pc' = "w_lock"
    /\ UNCHANGED <<clock, faults, srcVars, dbVars, db_lock, pc, cycleVars,
                   filterVars, entries_to_process, entry_index, crawled, ws_pc,
                   ws_entry, searchVars,
                   reindexVars, readerVars>>

\* the worker marking an entry whose crawl raised as processed
WorkerCrawlFail_marks_processed ==
    /\ w_pc = "w_crawl"
    /\ Fault
    /\ IF entry.id \in Ids(history)
       THEN /\ history' = UpdateContent(history, entry.id, "")
            /\ history_fts' = TriggerUpdate(history_fts, history[entry.id],
                                            history'[entry.id])
            /\ fts_nrow' = fts_nrow
       ELSE UNCHANGED <<history, history_fts, fts_nrow>>
    /\ crawl_failed' = crawl_failed \cup {entry.id}
    /\ NextEntry
    /\ UNCHANGED <<clock, srcVars, last_processed, bookmarks, ingested,
                   db_lock, pc, cycleVars, filterVars, entries_to_process,
                   crawled, ws_pc, ws_entry, searchVars,
                   reindexVars, readerVars>>

\* lines 317-319: the crawl raises, should_update_db stays False and the
\* entry is left as it is
WorkerCrawlFail ==
    /\ w_pc = "w_crawl"
    /\ Fault
    /\ crawl_failed' = crawl_failed \cup {entry.id}
    /\ NextEntry
    /\ UNCHANGED <<clock, srcVars, dbVars, db_lock, pc, cycleVars, filterVars,
                   entries_to_process, crawled, ws_pc, ws_entry, searchVars,
                   reindexVars, readerVars>>

\* WorkerLock going on to the update without waiting for db_lock
WorkerLock_unguarded ==
    /\ w_pc = "w_lock"
    /\ w_pc' = "w_update"
    /\ UNCHANGED <<clock, faults, srcVars, dbVars, db_lock, pc, cycleVars,
                   filterVars, entries_to_process, entry_index, w_markdown,
                   w_result,
                   crawled, crawl_failed, ws_pc, ws_entry, searchVars,
                   reindexVars, readerVars>>

\* line 324: db_lock is taken for the update of this entry
WorkerLock ==
    /\ w_pc = "w_lock"
    /\ db_lock = "free"
    /\ db_lock' = "worker"
    /\ w_pc' = "w_update"
    /\ UNCHANGED <<clock, faults, srcVars, dbVars, pc, cycleVars, filterVars,
                   entries_to_process, entry_index, w_markdown, w_result,
                   crawled, crawl_failed, ws_pc,
                   ws_entry, searchVars,
                   reindexVars, readerVars>>

\* lines 325-345: the update of the one row in a transaction of its own,
\* committed if the row was found, rolled back if not; db_lock is released
WorkerUpdate ==
    /\ w_pc = "w_update"
    /\ IF entry.id \in Ids(history)
       THEN /\ history' = UpdateContent(history, entry.id, w_markdown)
            /\ history_fts' = TriggerUpdate(history_fts, history[entry.id],
                                            history'[entry.id])
            /\ fts_nrow' = fts_nrow
       ELSE UNCHANGED <<history, history_fts, fts_nrow>>
    /\ db_lock' = IF db_lock = "worker" THEN "free" ELSE db_lock
    /\ NextEntry
    /\ UNCHANGED <<clock, faults, srcVars, last_processed, bookmarks, ingested,
                   pc, cycleVars, filterVars, entries_to_process, crawled,
                   crawl_failed,
                   ws_pc, ws_entry, searchVars,
                   reindexVars, readerVars>>

\* the failed update going up to the handler of line 356: the batch is over
WorkerUpdateFail_ends_batch ==
    /\ w_pc = "w_update"
    /\ Fault
    /\ db_lock' = IF db_lock = "worker" THEN "free" ELSE db_lock
    /\ entries_to_process' = <<>>
    /\ entry_index' = 1
    /\ w_result' = NULL
    /\ w_markdown' = NULL
    /\ w_pc' = "w_sleep"
    /\ UNCHANGED <<clock, srcVars, dbVars, pc, cycleVars, filterVars, crawled,
                   crawl_failed, ws_pc, ws_entry, searchVars, reindexVars,
                   readerVars>>

\* lines 346-347: the update raises, nothing is written, db_lock is released
WorkerUpdateFail ==
    /\ w_pc = "w_update"
    /\ Fault
    /\ db_lock' = IF db_lock = "worker" THEN "free" ELSE db_lock
    /\ NextEntry
    /\ UNCHANGED <<clock, srcVars, dbVars, pc, cycleVars, filterVars,
                   entries_to_process, crawled, crawl_failed, ws_pc,
                   ws_entry, searchVars,
                   reindexVars, readerVars>>

\* lines 349-353, 366-379: the batch is over, the worker sleeps
WorkerDone ==
    /\ w_pc = "w_entry"
    /\ entry_index > Len(entries_to_process)
    /\ entries_to_process' = <<>>
    /\ entry_index' = 1
    /\ w_pc' = "w_sleep"
    /\ UNCHANGED <<clock, faults, srcVars, dbVars, db_lock, pc, cycleVars,
                   filterVars, w_markdown, w_result, crawled, crawl_failed,
                   ws_pc, ws_entry,
                   searchVars,
                   reindexVars, readerVars>>

(***************************************************************************)
(* app/routers/websocket.py, websocket_endpoint: one message of the        *)
(* browser extension at a time.  The handler never takes db_lock.          *)
(***************************************************************************)
\* the pages the extension reports
WsUrls == {Url(HostA, <<"/">>), Url(HostB, <<"/">>)}

\* what crawler.arun yields for a reported page: a title and markdown, a
\* title alone, or neither
WsCrawlResults == {[title |-> "w", markdown |-> "m"],
                   [title |-> "w", markdown |-> ""],
                   [title |-> "", markdown |-> ""]}

\* lines 80-84: a row of the same url visited no earlier than the threshold
existing_entry(tbl, url, ts) ==
    \E i \in Ids(tbl) :
        /\ tbl[i].url = url
        /\ timestamp(tbl[i].visit_time) >= ts - RecentWindow

\* lines 29-92: a message arrives, which it can once startup_event has
\* returned (main.py:52-69); it is dropped if its domain is ignored or a
\* recent row exists for its url, else the crawl is started (line 100)
WsReceive ==
    /\ ws_pc = "ws_idle"
    /\ pc.bookmarks = "b_done"
    /\ \E url \in WsUrls :
          LET domain == netloc(url)
          IN  /\ ~is_domain_ignored(domain, ExcludedDomains)
              /\ ~existing_entry(history, url, clock)
              /\ ws_entry' = [HistoryEntry(url, "", Aware(clock, 0), domain)
                                 EXCEPT !.markdown_content = NULL]
              /\ ws_pc' = "ws_crawl"
    /\ UNCHANGED <<clock, faults, srcVars, dbVars, db_lock, pc, cycleVars,
                   filterVars, w_pc, entries_to_process, entry_index,
                   w_markdown, w_result, crawled, crawl_failed, searchVars,
                   reindexVars, readerVars>>

\* lines 100-139: the crawl returns; with neither title nor content the
\* message is dropped, else the row is built and added to the session
WsCrawled ==
    /\ ws_pc = "ws_crawl"
    /\ \E crawl_result \in WsCrawlResults :
          IF crawl_result.title = "" /\ crawl_result.markdown = ""
          THEN /\ ws_entry' = NULL
               /\ ws_pc' = "ws_idle"
          ELSE /\ ws_entry' = [ws_entry EXCEPT
                                  !.title = crawl_result.title,
                                  !.markdown_content = crawl_result.markdown,
                                  !.last_content_update = Aware(clock, 0)]
               /\ ws_pc' = "ws_save"
    /\ UNCHANGED <<clock, faults, srcVars, dbVars, db_lock, pc, cycleVars,
                   filterVars, w_pc, entries_to_process, entry_index,
                   w_markdown, w_result, crawled, crawl_failed, searchVars,
                   reindexVars, readerVars>>

\* lines 115-121: the crawl raises, the message is dropped
WsCrawlFail ==
    /\ ws_pc = "ws_crawl"
    /\ Fault
    /\ ws_entry' = NULL
    /\ ws_pc' = "ws_idle"
    /\ UNCHANGED <<clock, srcVars, dbVars, db_lock, pc, cycleVars, filterVars,
                   w_pc, entries_to_process, entry_index, w_markdown,
                   w_result, crawled, crawl_failed,
                   searchVars,
                   reindexVars, readerVars>>

\* lines 143-150: db.add and db.commit, with db_lock neither taken nor tested
WsSave ==
    /\ ws_pc = "ws_save"
    /\ history' = Inserted(history, <<ws_entry>>)
    /\ history_fts' = TriggerInsert(history_fts, history, <<ws_entry>>)
    /\ fts_nrow' = fts_nrow + Len(<<ws_entry>>)
    /\ ws_entry' = NULL
    /\ ws_pc' = "ws_idle"
    /\ UNCHANGED <<clock, faults, srcVars, last_processed, bookmarks, ingested,
                   db_lock, pc, cycleVars, filterVars, w_pc,
                   entries_to_process, entry_index, w_markdown, w_result,
                   crawled, crawl_failed,
                   searchVars,
                   reindexVars, readerVars>>

\* lines 151-157: the commit raises and is rolled back
WsSaveFail ==
    /\ ws_pc = "ws_save"
    /\ Fault
    /\ ws_entry' = NULL
    /\ ws_pc' = "ws_idle"
    /\ UNCHANGED <<clock, srcVars, dbVars, db_lock, pc, cycleVars, filterVars,
                   w_pc, entries_to_process, entry_index, w_markdown,
                   w_result, crawled, crawl_failed,
                   searchVars,
                   reindexVars, readerVars>>

(***************************************************************************)
(* The service with its enrichment worker and its websocket handler: the  *)
(* sync tasks, the worker and the handler run on one event loop over one   *)
(* database.  The startup import has returned, having found the browser's  *)
(* history empty; since then the browser holds Visits and Bookmarks.  The  *)
(* database may hold a row on HostB ingested by an earlier run, before     *)
(* HostB was excluded.                                                     *)
(***************************************************************************)
\* the row of the earlier run
EarlierRow ==
    [HistoryEntry(Url(HostB, <<"/">>), "t0", Aware(0, 0), HostB)
        EXCEPT !.id = 1]

EnrichInit ==
    /\ clock = MaxClock
    /\ faults = 0
    /\ srcHistory = Visits
    /\ srcBookmarks = Bookmarks
    /\ last_processed = {}
    /\ \E earlier \in {<<>>, <<EarlierRow>>} :
          /\ history = earlier
          /\ history_fts = {FtsRow(earlier[i]) : i \in DOMAIN earlier}
          /\ fts_nrow = Cardinality(history_fts)
    /\ bookmarks = <<>>
    /\ ingested = [t \in Tasks |-> {}]
    /\ db_lock = "free"
    /\ pc = [StartPc EXCEPT !.import = "i_done", !.bookmarks = "b_begin"]
    /\ NoCycle
    /\ NoFilter
    /\ w_pc = "w_sleep"
    /\ entries_to_process = <<>>
    /\ entry_index = 1
    /\ w_result = NULL
    /\ w_markdown = NULL
    /\ crawled = {}
    /\ crawl_failed = {}
    /\ ws_pc = "ws_idle"
    /\ ws_entry = NULL
    /\ NoSearch
    /\ NoReindex
    /\ NoClean

EnrichNext ==
    \/ BmBegin \/ BmFetch \/ BmLock \/ BmCommit \/ BmWatermark \/ BmReturn
    \/ HistBegin \/ HistFetch \/ HistLock \/ HistCommit \/ HistCommitFail
    \/ HistWatermark \/ HistEmpty \/ HistSleep
    \/ WorkerBegin \/ WorkerSelect \/ WorkerSkip \/ WorkerCrawl
    \/ WorkerCrawled \/ WorkerCrawlFail \/ WorkerLock \/ WorkerUpdate
    \/ WorkerUpdateFail \/ WorkerDone
    \/ WsReceive \/ WsCrawled \/ WsCrawlFail \/ WsSave \/ WsSaveFail

EnrichSpec == EnrichInit /\ [][EnrichNext]_vars

\* the steps of a task that do not wait for db_lock: the event loop runs a
\* task that is ready, every sleep ends, every fetch returns
BmSteps == BmBegin \/ BmFetch \/ BmCommit \/ BmWatermark \/ BmReturn

HistSteps ==
    \/ HistBegin \/ HistFetch \/ HistCommit \/ HistWatermark \/ HistEmpty
    \/ HistSleep

WorkerSteps ==
    \/ WorkerSelect \/ WorkerSkip \/ WorkerCrawl \/ WorkerCrawled
    \/ WorkerUpdate \/ WorkerDone

\* the tasks that take db_lock, with the failures inside their guarded
\* sections
GuardNext ==
    \/ BmSteps \/ BmLock \/ HistSteps \/ HistLock \/ HistCommitFail
    \/ WorkerSteps \/ WorkerBegin \/ WorkerLock \/ WorkerCrawlFail
    \/ WorkerUpdateFail

\* the tasks under fair scheduling: asyncio.Lock wakes its waiters in the
\* order they came, so a task that asks for db_lock gets it once the tasks
\* before it have released it
GuardSpec ==
    /\ EnrichInit
    /\ [][GuardNext]_vars
    /\ WF_vars(BmSteps) /\ SF_vars(BmLock)
    /\ WF_vars(HistSteps) /\ SF_vars(HistLock)
    /\ WF_vars(WorkerSteps) /\ SF_vars(WorkerBegin) /\ SF_vars(WorkerLock)

\* lines 279-294: the domain check raises (urlparse, is_domain_ignored), the
\* handler logs a warning and goes on to the next entry
WorkerParseFail ==
    /\ w_pc = "w_entry"
    /\ entry_index <= Len(entries_to_process)
    /\ Fault
    /\ NextEntry
    /\ UNCHANGED <<clock, srcVars, dbVars, db_lock, pc, cycleVars, filterVars,
                   entries_to_process, crawled, crawl_failed, ws_pc, ws_entry,
                   searchVars, reindexVars, readerVars>>

\* the enrichment with every failure of one entry of a batch
BatchNext == EnrichNext \/ WorkerParseFail

BatchSpec == EnrichInit /\ [][BatchNext]_vars

(***************************************************************************)
(* The enrichment loop by itself, batch after batch, over a table the      *)
(* ingestion has filled: rows without content, and rows an earlier batch   *)
(* marked with the empty string.                                           *)
(***************************************************************************)
\* the rows of the table the loop starts on
BacklogRows ==
    { [HistoryEntry(Url(h, <<"/">>), "t1", Aware(ts, 0), h)
          EXCEPT !.markdown_content = c] :
        h \in {HostA, HostB}, ts \in 1..MaxClock, c \in {NULL, ""} }

\* the table holds up to one row more than a batch
BacklogInit ==
    /\ clock = MaxClock
    /\ faults = 0
    /\ srcHistory = {}
    /\ srcBookmarks = {}
    /\ last_processed = {}
    /\ \E n \in 1..(MaxBatch + 1) :
          \E rows \in [1..n -> BacklogRows] :
             /\ history = Inserted(<<>>, rows)
             /\ history_fts = {FtsRow(history[i]) : i \in Ids(history)}
    /\ fts_nrow = Cardinality(history_fts)
    /\ bookmarks = <<>>
    /\ ingested = [t \in Tasks |-> {}]
    /\ db_lock = "free"
    /\ pc = StartPc
    /\ NoCycle
    /\ NoFilter
    /\ w_pc = "w_sleep"
    /\ entries_to_process = <<>>
    /\ entry_index = 1
    /\ w_result = NULL
    /\ w_markdown = NULL
    /\ crawled = {}
    /\ crawl_failed = {}
    /\ ws_pc = "ws_off"
    /\ ws_entry = NULL
    /\ NoSearch
    /\ NoReindex
    /\ NoClean

\* the steps the loop takes by itself: every sleep ends, db_lock is free
\* when it asks, every crawl returns
WorkerProgress ==
    \/ WorkerBegin \/ WorkerSelect \/ WorkerSkip \/ WorkerCrawl
    \/ WorkerCrawled \/ WorkerLock \/ WorkerUpdate \/ WorkerDone

BacklogNext ==
    \/ WorkerProgress \/ WorkerCrawlFail \/ WorkerUpdateFail
    \/ WorkerParseFail

\* update_missing_markdown_periodically under fair scheduling
BacklogSpec == BacklogInit /\ [][BacklogNext]_vars /\ WF_vars(WorkerProgress)

(***************************************************************************)
(* Cancellation of the loop tasks.  asyncio delivers a cancellation to a   *)
(* task where it is suspended: CancelledError is raised at that await.  It *)
(* is no Exception, no handler of the loops catches it, and the task ends. *)
(***************************************************************************)
\* update_history cancelled in the middle of its guarded section as well
HistAwaits_anywhere == {"h_sleep", "h_lock", "h_commit", "h_mark"}

\* the awaits of update_history: asyncio.sleep (lines 139, 249) and the
\* acquire of db_lock (line 189); lines 190-228 hold no await
HistAwaits == {"h_sleep", "h_lock"}

\* _process_markdown_batch cancelled in the middle of its update as well
WorkerAwaits_anywhere == {"w_sleep", "w_crawl", "w_lock", "w_update"}

\* the awaits of the enrichment loop: asyncio.sleep and the acquire of
\* db_lock for the query (lines 363, 379, 256), crawler.arun (line 304), the
\* acquire of db_lock for the update (line 324); lines 325-347 hold no await
WorkerAwaits == {"w_sleep", "w_crawl", "w_lock"}

\* the history loop is cancelled: CancelledError leaves update_history
CancelHistory ==
    /\ pc.history \in HistAwaits
    /\ pc' = [pc EXCEPT !.history = "h_cancelled"]
    /\ UNCHANGED <<clock, faults, srcVars, dbVars, db_lock, cycleVars,
                   filterVars, enrichVars, searchVars, reindexVars,
                   readerVars>>

\* the enrichment loop is cancelled: CancelledError leaves
\* _process_markdown_batch and update_missing_markdown_periodically
CancelWorker ==
    /\ w_pc \in WorkerAwaits
    /\ w_pc' = "w_cancelled"
    /\ UNCHANGED <<clock, faults, srcVars, dbVars, db_lock, pc, cycleVars,
                   filterVars, entries_to_process, entry_index, w_markdown,
                   w_result, crawled, crawl_failed, ws_pc, ws_entry,
                   searchVars, reindexVars, readerVars>>

CancelNext == EnrichNext \/ CancelHistory \/ CancelWorker

CancelSpec == EnrichInit /\ [][CancelNext]_vars

(***************************************************************************)
(* The text index under the statements that fire its triggers: the INSERT  *)
(* of the ingestion paths and of the page handler, the UPDATE of the       *)
(* enrichment worker, and a DELETE.                                        *)
(***************************************************************************)
\* the rows the writers insert: without content (scheduler.py:197-204) or
\* with the content of a page (routers/websocket.py:132-139)
InsertableRows ==
    { [HistoryEntry(Url(h, <<"/">>), t, Aware(ts, 0), h)
          EXCEPT !.markdown_content = c] :
        h \in {HostA, HostSub}, t \in {"t1", "t3"}, ts \in 1..MaxClock,
        c \in {NULL, "m"} }


IndexInit ==
    /\ clock = 1
    /\ faults = 0
    /\ srcHistory = {}
    /\ srcBookmarks = {}
    /\ last_processed = {}
    /\ history = <<>>
    /\ bookmarks = <<>>
    /\ history_fts = {}
    /\ fts_nrow = Cardinality(history_fts)
    /\ ingested = [t \in Tasks |-> {}]
    /\ db_lock = "free"
    /\ pc = StartPc
    /\ NoCycle
    /\ NoFilter
    /\ NoEnrich
    /\ NoSearch
    /\ NoReindex
    /\ NoClean

\* INSERT INTO history: trigger history_ai fires in the same transaction
SqlInsert ==
    /\ Len(history) < MaxRows
    /\ \E row \in InsertableRows :
          /\ history' = Inserted(history, <<row>>)
          /\ history_fts' = TriggerInsert(history_fts, history, <<row>>)
          /\ fts_nrow' = fts_nrow + Len(<<row>>)
    /\ UNCHANGED <<clock, faults, srcVars, last_processed, bookmarks, ingested,
                   db_lock, pc, cycleVars, filterVars, enrichVars, searchVars,
                   reindexVars, readerVars>>

\* UPDATE history SET markdown_content: trigger history_au fires
SqlUpdate ==
    /\ \E i \in Ids(history), content \in Markdown :
          /\ history' = UpdateContent(history, i, content)
          /\ history_fts' = TriggerUpdate(history_fts, history[i], history'[i])
          /\ fts_nrow' = fts_nrow
    /\ UNCHANGED <<clock, faults, srcVars, last_processed, bookmarks, ingested,
                   db_lock, pc, cycleVars, filterVars, enrichVars, searchVars,
                   reindexVars, readerVars>>

\* DELETE FROM history: trigger history_ad fires
SqlDelete ==
    /\ \E i \in Ids(history) :
          /\ history' = DeleteFrom(history, i)
          /\ history_fts' = TriggerDelete(history_fts, history[i])
          /\ fts_nrow' = fts_nrow - 1
    /\ UNCHANGED <<clock, faults, srcVars, last_processed, bookmarks, ingested,
                   db_lock, pc, cycleVars, filterVars, enrichVars, searchVars,
                   reindexVars, readerVars>>

IndexNext == SqlInsert \/ SqlUpdate \/ SqlDelete

IndexSpec == IndexInit /\ [][IndexNext]_vars

(***************************************************************************)
(* app/database.py, recreate_fts_tables: the reindex.  Its connection is   *)
(* a sqlite3 connection with the default transaction control: a DROP or    *)
(* CREATE statement is committed as it is executed, and the bulk INSERT    *)
(* opens the one transaction that conn.commit() ends.  init_fts works on a *)
(* connection of its own.  Other connections insert rows into history      *)
(* between the statements.                                                 *)
(***************************************************************************)
\* the rows the writers insert while the reindex runs
ReindexRows ==
    { [HistoryEntry(Url(HostA, <<"/">>), t, Aware(1, 0), HostA)
          EXCEPT !.markdown_content = c] :
        t \in {"t1", "t3"}, c \in {NULL, "m"} }

\* the statement recreate_fts_tables and init_fts stand at, and the next one
ReindexSteps ==
    <<"r_drop_ai", "r_drop_ad", "r_drop_au", "r_drop_table", "r_create_table",
      "r_create_ai", "r_create_ad", "r_create_au", "r_populate", "r_done">>

NextStep(p) ==
    ReindexSteps[(CHOOSE k \in DOMAIN ReindexSteps : ReindexSteps[k] = p) + 1]

\* the trigger a DROP TRIGGER or CREATE TRIGGER statement names
TriggerOf ==
    [r_drop_ai |-> "history_ai", r_drop_ad |-> "history_ad",
     r_drop_au |-> "history_au", r_create_ai |-> "history_ai",
     r_create_ad |-> "history_ad", r_create_au |-> "history_au"]

\* the index rows of the rows of a table
Mirror(tbl) == {FtsRow(tbl[i]) : i \in Ids(tbl)}

\* the database when the reindex is called: init_fts has run; the index
\* mirrors history, or is empty (an earlier reindex failed before its bulk
\* insert)
ReindexInit ==
    /\ clock = 1
    /\ faults = 0
    /\ srcHistory = {}
    /\ srcBookmarks = {}
    /\ last_processed = {}
    /\ \E rows \in {<<>>} \cup {<<r>> : r \in ReindexRows} :
          /\ history = Inserted(<<>>, rows)
          /\ history_fts \in {Mirror(history), {}}
    /\ fts_nrow = Cardinality(history_fts)
    /\ bookmarks = <<>>
    /\ ingested = [t \in Tasks |-> {}]
    /\ db_lock = "free"
    /\ pc = StartPc
    /\ NoCycle
    /\ NoFilter
    /\ NoEnrich
    /\ NoSearch
    /\ fts_objects = FtsObjects
    /\ r_pc = "r_idle"
    /\ r_before = [objects |-> {}, rows |-> {}, nrow |-> 0]
    /\ NoClean

\* lines 253-256: recreate_fts_tables is called
ReindexBegin ==
    /\ r_pc = "r_idle"
    /\ r_before' = [objects |-> fts_objects, rows |-> history_fts,
                    nrow |-> fts_nrow]
    /\ r_pc' = "r_drop_ai"
    /\ UNCHANGED <<clock, faults, srcVars, dbVars, db_lock, pc, cycleVars,
                   filterVars, enrichVars, searchVars, fts_objects,
                   readerVars>>

\* lines 259-261: DROP TRIGGER IF EXISTS, committed at once
ReindexDropTrigger ==
    /\ r_pc \in {"r_drop_ai", "r_drop_ad", "r_drop_au"}
    /\ fts_objects' = fts_objects \ {TriggerOf[r_pc]}
    /\ r_pc' = NextStep(r_pc)
    /\ UNCHANGED <<clock, faults, srcVars, dbVars, db_lock, pc, cycleVars,
                   filterVars, enrichVars, searchVars, r_before, readerVars>>

\* line 262: DROP TABLE IF EXISTS history_fts, committed at once: the index
\* and all it holds are gone
ReindexDropTable ==
    /\ r_pc = "r_drop_table"
    /\ fts_objects' = fts_objects \ {"history_fts"}
    /\ history_fts' = {}
    /\ fts_nrow' = 0
    /\ r_pc' = NextStep(r_pc)
    /\ UNCHANGED <<clock, faults, srcVars, last_processed, history, bookmarks,
                   ingested, db_lock, pc, cycleVars, filterVars, enrichVars,
                   searchVars, r_before, readerVars>>

\* lines 265, 99-109: init_fts, CREATE VIRTUAL TABLE IF NOT EXISTS: an empty
\* index unless the table exists
ReindexCreateTable ==
    /\ r_pc = "r_create_table"
    /\ fts_objects' = fts_objects \cup {"history_fts"}
    /\ r_pc' = NextStep(r_pc)
    /\ UNCHANGED <<clock, faults, srcVars, dbVars, db_lock, pc, cycleVars,
                   filterVars, enrichVars, searchVars, r_before, readerVars>>

\* lines 112-133: init_fts, CREATE TRIGGER IF NOT EXISTS, three times; after
\* the third init_fts commits and returns (lines 135-137)
ReindexCreateTrigger ==
    /\ r_pc \in {"r_create_ai", "r_create_ad", "r_create_au"}
    /\ fts_objects' = fts_objects \cup {TriggerOf[r_pc]}
    /\ r_pc' = NextStep(r_pc)
    /\ UNCHANGED <<clock, faults, srcVars, dbVars, db_lock, pc, cycleVars,
                   filterVars, enrichVars, searchVars, r_before, readerVars>>

\* the bulk insert skipping the rows the index already holds
ReindexPopulate_skips_indexed ==
    /\ r_pc = "r_populate"
    /\ "history_fts" \in fts_objects
    /\ history_fts' = history_fts \cup Mirror(history)
    /\ fts_nrow' = fts_nrow + Cardinality(Mirror(history) \ history_fts)
    /\ r_pc' = NextStep(r_pc)
    /\ UNCHANGED <<clock, faults, srcVars, last_processed, history, bookmarks,
                   ingested, db_lock, pc, cycleVars, filterVars, enrichVars,
                   searchVars, fts_objects, r_before, readerVars>>

\* lines 268-273: INSERT INTO history_fts ... SELECT ... FROM history and
\* conn.commit(): every row of history is added to the index, whether the
\* index holds it or not
ReindexPopulate ==
    /\ r_pc = "r_populate"
    /\ "history_fts" \in fts_objects
    /\ history_fts' = history_fts \cup Mirror(history)
    /\ fts_nrow' = fts_nrow + Cardinality(Ids(history))
    /\ r_pc' = NextStep(r_pc)
    /\ UNCHANGED <<clock, faults, srcVars, last_processed, history, bookmarks,
                   ingested, db_lock, pc, cycleVars, filterVars, enrichVars,
                   searchVars, fts_objects, r_before, readerVars>>

\* lines 276-278: a statement raises; conn.rollback() undoes the open
\* transaction, which holds at most the bulk insert
ReindexFail ==
    /\ r_pc \notin {"r_off", "r_idle", "r_done", "r_failed"}
    /\ Fault
    /\ r_pc' = "r_failed"
    /\ UNCHANGED <<clock, srcVars, dbVars, db_lock, pc, cycleVars, filterVars,
                   enrichVars, searchVars, fts_objects, r_before, readerVars>>

\* a writer on another connection commits an INSERT INTO history
\* (scheduler.py:215, routers/websocket.py:145); trigger history_ai fires if
\* it exists
WriterInsert ==
    /\ Len(history) < MaxRows
    /\ \E row \in ReindexRows :
          /\ history' = Inserted(history, <<row>>)
          /\ IF "history_ai" \in fts_objects
             THEN /\ "history_fts" \in fts_objects
                  /\ history_fts' = history_fts \cup {FtsRow(history'[Len(history')])}
                  /\ fts_nrow' = fts_nrow + 1
             ELSE UNCHANGED <<history_fts, fts_nrow>>
    /\ UNCHANGED <<clock, faults, srcVars, last_processed, bookmarks, ingested,
                   db_lock, pc, cycleVars, filterVars, enrichVars, searchVars,
                   reindexVars, readerVars>>

ReindexNext ==
    \/ ReindexBegin \/ ReindexDropTrigger \/ ReindexDropTable
    \/ ReindexCreateTable \/ ReindexCreateTrigger \/ ReindexPopulate
    \/ ReindexFail \/ WriterInsert

ReindexSpec == ReindexInit /\ [][ReindexNext]_vars

(***************************************************************************)
(* app/page_reader.py, PageReader.clean_whitespace, and the function of    *)
(* the same name and body in page-reader.py.                               *)
(***************************************************************************)
\* the longest text given to clean_whitespace
MaxTextLen == 6

\* the characters of a text: a line feed, a blank, a letter
TextChars == {"\n", " ", "a"}

\* what str.rstrip() and str.strip() remove
Whitespace == {"\n", " "}

\* the number of line feeds s begins with
RECURSIVE LeadingNewlines(_)
LeadingNewlines(s) ==
    IF s # <<>> /\ Head(s) = "\n" THEN 1 + LeadingNewlines(Tail(s)) ELSE 0

\* re.sub(r'\n{3,}', '\n\n', text): every run of three or more line feeds
\* becomes two
RECURSIVE sub_newlines(_)
sub_newlines(text) ==
    IF text = <<>> THEN <<>>
    ELSE LET n == LeadingNewlines(text)
             rest == SubSeq(text, n + 1, Len(text))
         IN  IF n >= 3 THEN <<"\n", "\n">> \o sub_newlines(rest)
             ELSE IF n >= 1 THEN SubSeq(text, 1, n) \o sub_newlines(rest)
             ELSE <<Head(text)>> \o sub_newlines(Tail(text))

\* str.splitlines(): the lines of text without their line feeds; a line feed
\* at the end opens no further line
RECURSIVE splitlines(_)
splitlines(text) ==
    IF text = <<>> THEN <<>>
    ELSE IF ~HasChar(text, "\n") THEN <<text>>
    ELSE LET i == CHOOSE k \in DOMAIN text :
                      text[k] = "\n" /\ \A j \in 1..(k - 1) : text[j] # "\n"
         IN  <<SubSeq(text, 1, i - 1)>>
                 \o splitlines(SubSeq(text, i + 1, Len(text)))

\* str.rstrip()
RECURSIVE rstrip(_)
rstrip(s) ==
    IF s # <<>> /\ s[Len(s)] \in Whitespace
    THEN rstrip(SubSeq(s, 1, Len(s) - 1))
    ELSE s

\* str.lstrip()
RECURSIVE lstrip(_)
lstrip(s) ==
    IF s # <<>> /\ Head(s) \in Whitespace THEN lstrip(Tail(s)) ELSE s

\* str.strip()
strip(s) == lstrip(rstrip(s))

\* '\n'.join(lines)
RECURSIVE join(_)
join(lines) ==
    IF lines = <<>> THEN <<>>
    ELSE IF Len(lines) = 1 THEN lines[1]
    ELSE lines[1] \o <<"\n">> \o join(Tail(lines))

\* lines 66-79 (page-reader.py:56-62): collapse the runs of line feeds,
\* strip every line at its end, join the lines, strip the whole
clean_whitespace(text) ==
    IF text = <<>> THEN <<>>
    ELSE LET cleaned == sub_newlines(text)
             lines == splitlines(cleaned)
         IN  strip(join([k \in DOMAIN lines |-> rstrip(lines[k])]))

CleanInit ==
    /\ clock = 1
    /\ faults = 0
    /\ srcHistory = {}
    /\ srcBookmarks = {}
    /\ last_processed = {}
    /\ history = <<>>
    /\ bookmarks = <<>>
    /\ history_fts = {}
    /\ fts_nrow = 0
    /\ ingested = [t \in Tasks |-> {}]
    /\ db_lock = "free"
    /\ pc = StartPc
    /\ NoCycle
    /\ NoFilter
    /\ NoEnrich
    /\ NoSearch
    /\ NoReindex
    /\ cText \in StringsUpTo(TextChars, MaxTextLen)
    /\ cResult = [done |-> FALSE, out |-> <<>>]

\* html_to_markdown cleans the markdown of a page (page_reader.py:94)
ApplyClean ==
    /\ ~cResult.done
    /\ cResult' = [done |-> TRUE, out |-> clean_whitespace(cText)]
    /\ UNCHANGED <<clock, faults, srcVars, dbVars, db_lock, pc, cycleVars,
                   filterVars, enrichVars, searchVars, reindexVars, cText>>

CleanNext == ApplyClean

CleanSpec == CleanInit /\ [][CleanNext]_vars

(***************************************************************************)
(* Search.  Titles, contents and terms are sequences of characters here.   *)
(* SQLite's LIKE, its CASE/WHERE evaluation and its text index are         *)
(* modelled as far as the queries of app/main.py and app/routers/history.py*)
(* use them.  Scores are counted in quarters: 4.0 is 16, 0.5 is 2.         *)
(***************************************************************************)
\* NULL among values held as character sequences: markdown_content IS NULL,
\* a domain parameter that is None
NoText == <<NULL>>

\* SQL LIKE: '%' matches any run of characters, '_' any one character, a
\* letter matches itself in either case
RECURSIVE Like(_, _)
Like(text, pat) ==
    IF pat = <<>> THEN text = <<>>
    ELSE IF Head(pat) = "%"
         THEN Like(text, Tail(pat)) \/ (text # <<>> /\ Like(Tail(text), pat))
    ELSE IF Head(pat) = "_"
         THEN text # <<>> /\ Like(Tail(text), Tail(pat))
    ELSE text # <<>> /\ LowerChar(Head(text)) = LowerChar(Head(pat))
         /\ Like(Tail(text), Tail(pat))

\* main.py:159-161: the patterns built from search_term
exact_pattern(search_term) == search_term
prefix_pattern(search_term) == search_term \o <<"%">>
like_pattern(search_term) == <<"%">> \o search_term \o <<"%">>

\* main.py:123-137: the CASE expression, in halves
base_rank(h, search_term) ==
    IF Like(h.title, exact_pattern(search_term)) THEN 8
    ELSE IF Like(h.title, prefix_pattern(search_term)) THEN 6
    ELSE IF Like(h.title, like_pattern(search_term)) THEN 4
    ELSE IF /\ h.markdown_content # NoText
            /\ \/ Like(h.markdown_content, exact_pattern(search_term))
               \/ Like(h.markdown_content, prefix_pattern(search_term))
               \/ Like(h.markdown_content, like_pattern(search_term))
         THEN 2
    ELSE 1

\* main.py:137-140: CAST(.. AS INTEGER) / CAST(.. AS INTEGER) * 0.5 + 1, in
\* halves; the division is the integer division of SQLite
recency_factor(visit_epoch, now_epoch) == (visit_epoch \div now_epoch) + 2

\* main.py:123-140: final_rank, in quarters
final_rank(h, search_term, now_epoch) ==
    base_rank(h, search_term)
        * recency_factor(timestamp(h.visit_time), now_epoch)

\* the number of places at which phrase occurs in text
Occurrences(text, phrase) ==
    Cardinality({i \in 1..(Len(text) - Len(phrase) + 1) :
                    SubSeq(text, i, i + Len(phrase) - 1) = phrase})

\* the columns of the text index (database.py:100-104); visit_time is
\* UNINDEXED
FtsColumns == {"title", "markdown_content", "domain"}

\* the occurrences of a phrase in the given columns of an index row under
\* tokenize='trigram' (database.py:107): a phrase shorter than a trigram
\* matches nothing, a NULL column holds nothing, case is folded
FtsHits(f, columns, phrase) ==
    LET hits(c) == IF f[c] = NoText \/ Len(phrase) < TrigramLen THEN 0
                   ELSE Occurrences(Lower(f[c]), Lower(phrase))
    IN  (IF "title" \in columns THEN hits("title") ELSE 0)
        + (IF "markdown_content" \in columns THEN hits("markdown_content")
           ELSE 0)
        + (IF "domain" \in columns THEN hits("domain") ELSE 0)

\* history_fts MATCH expr
Match(f, expr) == FtsHits(f, expr.columns, expr.phrase) > 0

\* bm25(history_fts), the hidden rank column: the better the match, the
\* lower (more negative) the value; only the order it induces is modelled
bm25(f, expr) == 0 - FtsHits(f, expr.columns, expr.phrase)

\* the orders in which a query can return the rows S under an ORDER BY whose
\* keys place r1 before r2 exactly when <<r1, r2>> is in before; rows that
\* the keys do not separate come in any order
OrderBy(S, before) ==
    {q \in Perms(S) :
        \A i \in DOMAIN q : \A j \in DOMAIN q :
            i < j => <<q[j], q[i]>> \notin before}

\* LIMIT n
Limit(q, n) == IF Len(q) <= n THEN q ELSE SubSeq(q, 1, n)

\* the index row of a row of history
IndexRowOf(h) == CHOOSE f \in history_fts : f.rowid = h.id

\* main.py:158: 'search' is the term with a trailing '*', a prefix
\* query on every column
search_param(search_term) ==
    [phrase |-> search_term, prefix |-> TRUE, columns |-> FtsColumns]

\* main.py:143-148: the WHERE clause as SQLite groups it, AND binding
\* tighter than OR
where_clause(h, q) ==
    \/ Like(h.title, like_pattern(q.term))
    \/ /\ h.markdown_content # NoText
       /\ Match(IndexRowOf(h), search_param(q.term))
       /\ (q.domain = NoText \/ h.domain = q.domain)
       /\ (q.start_date = NoTime
              \/ timestamp(h.visit_time) >= timestamp(q.start_date))
       /\ (q.end_date = NoTime
              \/ timestamp(h.visit_time) <= timestamp(q.end_date))

\* main.py:143-145: the rows for which SQLite evaluates the MATCH operator.
\* Under OR it cannot be an index constraint, and evaluated as a function it
\* raises 'unable to use function MATCH in the requested context'
match_evaluated(h, q) ==
    /\ ~Like(h.title, like_pattern(q.term))
    /\ h.markdown_content # NoText

\* main.py:116-169, search_history with a search_term: the results the
\* query can return, or the error it raises
search_history(tbl, q, now_epoch) ==
    IF \E i \in Ids(tbl) : match_evaluated(tbl[i], q)
    THEN {[status |-> "error", match |-> search_param(q.term), rows |-> <<>>]}
    ELSE LET rank(i) == final_rank(tbl[i], q.term, now_epoch)
             ranked_results == {i \in Ids(tbl) : where_clause(tbl[i], q)}
             positive == {i \in ranked_results : rank(i) > 0}
             before == {p \in positive \X positive : rank(p[1]) > rank(p[2])}
         IN  {[status |-> "ok", match |-> search_param(q.term),
               rows |-> Limit([k \in DOMAIN ids |->
                                  [id |-> ids[k], rank |-> rank(ids[k])]],
                              BasicLimit)]
              : ids \in OrderBy(positive, before)}

\* routers/history.py:35-36: fts_match_expr, the quoted term as a prefix
\* phrase on title and on markdown_content (the terms here hold no quote)
fts_match_expr(query) ==
    [phrase |-> query, prefix |-> TRUE,
     columns |-> {"title", "markdown_content"}]

\* the rows an index query returns among the rows keep that its other
\* predicates accept: rank ascending or descending, then visit_time
\* descending if the ORDER BY names it
FtsResults(tbl, expr, keep, rank_desc, by_visit_time, limit) ==
    LET rank(i) == bm25(IndexRowOf(tbl[i]), expr)
        hits == {i \in keep : Match(IndexRowOf(tbl[i]), expr)}
        Before(i, j) ==
            \/ IF rank_desc THEN rank(i) > rank(j) ELSE rank(i) < rank(j)
            \/ /\ by_visit_time
               /\ rank(i) = rank(j)
               /\ timestamp(tbl[i].visit_time) > timestamp(tbl[j].visit_time)
        before == {p \in hits \X hits : Before(p[1], p[2])}
    IN  {[status |-> "ok", match |-> expr,
          rows |-> Limit([k \in DOMAIN ids |->
                             [id |-> ids[k], rank |-> rank(ids[k])]], limit)]
         : ids \in OrderBy(hits, before)}

\* routers/history.py:24-75, search_history with a query:
\* ORDER BY rank DESC, h.visit_time DESC LIMIT 100
router_search_history(tbl, q) ==
    LET passes(i) ==
            /\ (q.domain = NoText \/ tbl[i].domain = q.domain)
            /\ (q.start_date = NoTime
                   \/ timestamp(tbl[i].visit_time) >= timestamp(q.start_date))
            /\ (q.end_date = NoTime
                   \/ timestamp(tbl[i].visit_time) <= timestamp(q.end_date))
    IN  FtsResults(tbl, fts_match_expr(q.term),
                   {i \in Ids(tbl) : passes(i)}, TRUE, TRUE, BasicLimit)

\* the query string handed to MATCH as it is: a bare phrase, on every column
raw_query(query) ==
    [phrase |-> query, prefix |-> FALSE, columns |-> FtsColumns]

\* main.py:243-252, advanced_history_search: ORDER BY rank LIMIT 1000
advanced_history_search(tbl, query) ==
    FtsResults(tbl, raw_query(query), Ids(tbl), FALSE, FALSE, AdvancedLimit)

\* routers/history.py:109-122, advanced_history_search:
\* ORDER BY rank DESC, h.visit_time DESC LIMIT 1000
router_advanced_history_search(tbl, query) ==
    FtsResults(tbl, raw_query(query), Ids(tbl), TRUE, TRUE, AdvancedLimit)

(***************************************************************************)
(* The search functions applied to a small table.  now is one second after *)
(* MaxClock, so that visits of two different past seconds exist.           *)
(***************************************************************************)
SearchTitles ==
    {<<"a", "b", "c">>, <<"a", "b", "c", "d">>, <<"d", "a", "b", "c">>,
     <<"d">>}

SearchContents == {NoText, <<"a", "b", "c">>}

SearchTerms == {<<"a", "b", "c">>, <<"_", "b", "c">>}

now_epoch == MaxClock + 1

SearchRows ==
    {[HistoryEntry(Url(d, <<"/">>), t, Aware(v, 0), d)
         EXCEPT !.markdown_content = c] :
        d \in {HostA, HostB}, t \in SearchTitles, v \in {1, 2, now_epoch},
        c \in SearchContents}

\* a parameter that is not supplied is NoText or NoTime
SearchQueries ==
    [term : SearchTerms, domain : {NoText, HostA},
     start_date : {NoTime, Aware(2, 0)}, end_date : {NoTime, Aware(2, 0)}]

SearchInit ==
    /\ clock = now_epoch
    /\ faults = 0
    /\ srcHistory = {}
    /\ srcBookmarks = {}
    /\ last_processed = {}
    /\ \E r1 \in SearchRows : \E r2 \in SearchRows :
          \E rows \in {<<r1>>, <<r1, r2>>} :
              /\ history = Inserted(<<>>, rows)
              /\ history_fts = TriggerInsert({}, <<>>, rows)
              /\ fts_nrow = Cardinality(history_fts)
    /\ bookmarks = <<>>
    /\ ingested = [t \in Tasks |-> {}]
    /\ db_lock = "free"
    /\ pc = StartPc
    /\ NoCycle
    /\ NoFilter
    /\ NoEnrich
    /\ NoReindex
    /\ NoClean
    /\ sQuery \in SearchQueries
    /\ sResult = [impl |-> "none"]

Answer(impl, results) ==
    /\ sResult.impl = "none"
    /\ \E r \in results :
          sResult' = [impl |-> impl, status |-> r.status, match |-> r.match,
                      rows |-> r.rows]
    /\ UNCHANGED <<clock, faults, srcVars, dbVars, db_lock, pc, cycleVars,
                   filterVars, enrichVars, sQuery,
                   reindexVars, readerVars>>

\* GET /history/search of app/main.py
ApplySearch ==
    Answer("main.search_history", search_history(history, sQuery, clock))

\* GET /history/search of app/routers/history.py
ApplyRouterSearch ==
    Answer("routers.search_history", router_search_history(history, sQuery))

\* GET /history/search/advanced of app/main.py
ApplyAdvanced ==
    Answer("main.advanced_history_search",
           advanced_history_search(history, sQuery.term))

\* GET /history/search/advanced of app/routers/history.py
ApplyRouterAdvanced ==
    Answer("routers.advanced_history_search",
           router_advanced_history_search(history, sQuery.term))

SearchNext ==
    \/ ApplySearch \/ ApplyRouterSearch \/ ApplyAdvanced \/ ApplyRouterAdvanced

SearchSpec == SearchInit /\ [][SearchNext]_vars

(***************************************************************************)
(* Properties of the synchronization engine.                               *)
(***************************************************************************)
\* the persisted watermark of a source key, 0 when it has no row
Watermark(tbl, k) == get_last_processed_timestamp(tbl, k)

\* where each ingestion path stands when its cycle is over
EndPc == [import |-> "i_end", bookmarks |-> "b_end", history |-> "h_end"]

SyncTasks == {"bookmarks", "history"}

\* the entries of the cycle of task t that are to be committed
Survivors(t) ==
    IF t = "import"
    THEN SelectSeq(new_entries.import,
                   LAMBDA e : ~is_domain_ignored(e.domain, ExcludedDomains))
    ELSE new_entries[t]

\* the largest normalized timestamp of a snapshot
MaxTimestamp(snapshot) ==
    CHOOSE m \in {timestamp(normalize_datetime(TimeOf(e))) : e \in snapshot} :
        \A e \in snapshot : timestamp(normalize_datetime(TimeOf(e))) <= m

\* C1: for every source key, the persisted watermark never decreases, whatever
\* the step: a cycle that commits, one that finds nothing, one that fails, a
\* restart.
C1_WatermarkNeverDecreases ==
    [][\A k \in SourceKeys :
          Watermark(last_processed', k) >= Watermark(last_processed, k)]_vars

\* a later cycle of the history loop has advanced its watermark again, after a
\* failure, while the other sources have watermarks of their own
C1_Witness ==
    /\ faults > 0
    /\ Watermark(last_processed, SourceKey.history) > 1
    /\ Watermark(last_processed, SourceKey.import) > 0
    /\ Watermark(last_processed, SourceKey.bookmarks) > 0

\* C2: in every ingestion path that owns a watermark, a cycle in which a commit
\* failed and was rolled back ends with the watermark it read at its start.
C2_FailedCycleKeepsWatermark ==
    \A t \in Tasks :
        (pc[t] = EndPc[t] /\ failed[t])
            => Watermark(last_processed, SourceKey[t]) = last_timestamp[t]

\* C3: in a cycle of the Sync Engine with surviving entries, whenever the
\* source's watermark equals the now the cycle recorded (a now later than the
\* watermark the cycle read, so that the value is this cycle's), all the
\* surviving entries of the cycle are committed; this also holds of a cycle a
\* crash interrupted.
C3_WatermarkOnlyAfterCommit ==
    \A t \in SyncTasks :
        (/\ new_entries[t] # <<>>
         /\ last_timestamp[t] < current_timestamp[t]
         /\ Watermark(last_processed, SourceKey[t]) = current_timestamp[t])
            => visible[t] = Len(new_entries[t])

\* the history cycle has committed its entries and advanced the watermark
C3_Witness ==
    /\ pc.history = "h_end"
    /\ new_entries.history # <<>>
    /\ last_timestamp.history < current_timestamp.history
    /\ Watermark(last_processed, SourceKey.history) = current_timestamp.history
    /\ visible.history = Len(new_entries.history)

\* C4: of the surviving entries of one cycle, a reader sees all or none in the
\* committed tables, at every moment, in every ingestion path.
C4_AllOrNothing ==
    \A t \in Tasks : visible[t] = 0 \/ visible[t] = Len(Survivors(t))

\* a valid entry that neither filter excludes
Eligible(e) ==
    /\ e.url # NoUrl
    /\ TimeOf(e) # NoTime
    /\ ~is_domain_ignored(netloc(e.url), ExcludedDomains)
    /\ ~is_domain_excluded(netloc(e.url), ExcludedDomains)

\* C5: every valid entry on a non-excluded domain that is in the
\* History Source from some moment on is eventually committed by the cycles of
\* its source, under fair scheduling and finitely many failures.
C5_EveryEntryEventuallyCommitted ==
    /\ \A v \in Visits :
          Eligible(v) => ((v \in srcHistory) ~> (v \in ingested.history))
    /\ \A b \in Bookmarks :
          Eligible(b) => ((b \in srcBookmarks) ~> (b \in ingested.bookmarks))

\* C6: a cycle that runs on a non-empty snapshot with the watermark equal to
\* the largest timestamp of the snapshot keeps no entry and inserts no row.
C6_Idempotent ==
    \A t \in Tasks :
        (fetched[t] # {} /\ last_timestamp[t] = MaxTimestamp(fetched[t]))
            => new_entries[t] = <<>> /\ visible[t] = 0

\* the history cycle has filtered a snapshot whose newest visit is as old as
\* the watermark
C6_Witness ==
    /\ pc.history = "h_empty"
    /\ fetched.history # {}
    /\ last_timestamp.history = MaxTimestamp(fetched.history)
    /\ \E e \in fetched.history :
          ~is_domain_ignored(netloc(e.url), ExcludedDomains)

\* C7: no committed row has a domain the Domain Filter (the host filter with
\* the subdomain rule, ReaderConfig.is_domain_excluded) excludes.
C7_NoExcludedDomainCommitted ==
    /\ \A i \in DOMAIN history :
          ~is_domain_excluded(history[i].domain, ExcludedDomains)
    /\ \A i \in DOMAIN bookmarks :
          ~is_domain_excluded(bookmarks[i].domain, ExcludedDomains)

\* where a sync task stands when it fetches, and when its filtering has kept
\* no entry
FetchPc == [bookmarks |-> "b_fetch", history |-> "h_fetch"]
EmptyPc == [bookmarks |-> "b_empty", history |-> "h_empty"]

\* C21: a cycle in which no entry survives filtering still sets the watermark
\* of its source to the now it recorded at its start, before the fetch: the
\* now of a cycle is the clock at the step that leads to the fetch, and the
\* step that ends a cycle without survivors, unless the write itself raises,
\* leaves the watermark equal to that now.
C21_EmptyCycleAdvancesWatermark ==
    [][\A t \in SyncTasks :
          /\ (pc[t] # FetchPc[t] /\ pc'[t] = FetchPc[t])
                => current_timestamp'[t] = clock
          /\ (pc[t] = FetchPc[t] /\ pc'[t] = EmptyPc[t])
                => current_timestamp'[t] = current_timestamp[t]
          /\ (pc[t] = EmptyPc[t] /\ pc'[t] = EndPc[t] /\ faults' = faults)
                => Watermark(last_processed', SourceKey[t])
                       = current_timestamp[t]]_vars

\* a history cycle whose snapshot held only new visits on ignored domains has
\* ended with the watermark advanced to its now, a now earlier than the clock
C21_Witness ==
    /\ pc.history = "h_end"
    /\ new_entries.history = <<>>
    /\ fetched.history # {}
    /\ \A e \in fetched.history :
          /\ timestamp(normalize_datetime(e.visit_time)) > last_timestamp.history
          /\ is_domain_ignored(netloc(e.url), ExcludedDomains)
    /\ last_timestamp.history < current_timestamp.history
    /\ current_timestamp.history < clock
    /\ Watermark(last_processed, SourceKey.history) = current_timestamp.history

LockPc == [bookmarks |-> "b_lock", history |-> "h_lock"]

\* the (url, epoch seconds) key of a raw entry
KeyOf(e) == <<e.url, timestamp(normalize_datetime(TimeOf(e)))>>

\* the raw entries of the snapshot of task t that are well formed, newer than
\* the watermark the cycle read, and not on an ignored domain
EligibleIn(t) ==
    {e \in fetched[t] :
        /\ e.url # NoUrl
        /\ TimeOf(e) # NoTime
        /\ ~normalize_raises(TimeOf(e))
        /\ ~urlparse_raises(e.url)
        /\ timestamp(normalize_datetime(TimeOf(e))) > last_timestamp[t]
        /\ ~is_domain_ignored(netloc(e.url), ExcludedDomains)}

\* the filter loop of task t ran to its end
Filtered(t) == pc[t] \in {LockPc[t], EmptyPc[t]}

\* C22: for both sources, the entries a cycle keeps are one per (url, epoch
\* seconds) key among the eligible entries of its snapshot: two entries are
\* collapsed exactly when url and timestamp are both equal, so the same url
\* with two timestamps is kept twice.
C22_DedupByUrlAndTime ==
    \A t \in SyncTasks :
        Filtered(t) =>
            /\ {KeyOf(new_entries[t][i].src) : i \in DOMAIN new_entries[t]}
                   = {KeyOf(e) : e \in EligibleIn(t)}
            /\ Len(new_entries[t])
                   = Cardinality({KeyOf(e) : e \in EligibleIn(t)})

\* C23: a malformed raw entry (no url, no timestamp, a timestamp without UTC
\* conversion, a url that does not parse) is skipped and does not abort the
\* cycle: when the cycle is over the watermark stands at the cycle's now and
\* every well-formed, new, non-ignored url of the snapshot is ingested.
C23_MalformedEntrySkipped ==
    \A t \in SyncTasks :
        pc[t] = EndPc[t] =>
            /\ Watermark(last_processed, SourceKey[t]) = current_timestamp[t]
            /\ \A e \in EligibleIn(t) :
                  \E i \in ingested[t] : i.url = e.url

\* C24: no fetch failure, malformed entry or commit failure terminates the
\* history loop: every cycle that starts comes to its end, and after every
\* cycle the loop sleeps and starts another cycle.
C24_HistoryLoopNeverStops ==
    /\ (pc.history = "h_fetch") ~> (pc.history = "h_end")
    /\ (pc.history = "h_end") ~> (pc.history = "h_fetch")

\* a second history cycle starts after a cycle that a failure ended
\* (the bookmarks run wrote its watermark, so the failure was the loop's)
C24_Witness ==
    /\ pc.history = "h_fetch"
    /\ faults = 1
    /\ Watermark(last_processed, SourceKey.bookmarks) > 0
    /\ Watermark(last_processed, SourceKey.history) = 0

\* C25: the bookmarks source loops as the history source does: after any
\* completed bookmarks cycle, the start-up run included, another bookmarks
\* cycle starts.
C25_BookmarksLoopNeverStops ==
    (pc.bookmarks = "b_end") ~> (pc.bookmarks = "b_fetch")

\* C37: as long as no commit has failed and the process has not crashed, no
\* two rows of history hold the same url at the same instant: every visit of
\* the source is stored at most once, by the startup import and the cycles
\* of the history loop together.
C37_NoVisitStoredTwice ==
    faults = 0 =>
        \A i, j \in Ids(history) :
            (/\ history[i].url = history[j].url
             /\ timestamp(history[i].visit_time)
                    = timestamp(history[j].visit_time)) => i = j

\* C40: the result of clean_whitespace holds no three line feeds in a row,
\* whatever the text.
C40_NoThreeNewlines ==
    cResult.done =>
        ~\E i \in 1..(Len(cResult.out) - 2) :
            /\ cResult.out[i] = "\n"
            /\ cResult.out[i + 1] = "\n"
            /\ cResult.out[i + 2] = "\n"

\* a datetime in UTC
IsUtc(dt) == dt.tz = "aware" /\ dt.off = 0

\* C31: every visit_time and added_time an ingestion path has stored is a UTC
\* instant: the source timestamp, zone-aware or naive local time, was
\* converted to UTC before it was stored.
C31_StoredTimesAreUtc ==
    /\ \A i \in Ids(history) : IsUtc(history[i].visit_time)
    /\ \A i \in DOMAIN bookmarks : IsUtc(bookmarks[i].added_time)

(***************************************************************************)
(* Properties of the domain filters.                                       *)
(***************************************************************************)
\* host has the form x.pattern for a non-empty x
IsSubdomainOf(host, pattern) ==
    /\ pattern # <<>>
    /\ Len(host) > Len(pattern) + 1
    /\ EndsWith(host, <<".">> \o pattern)

\* C8: the filter the Sync Engine and the Enrichment Worker consult
\* (Config.is_domain_ignored) excludes every host x.P for a configured pattern P
\* without wildcards.
C8_SubdomainExcluded ==
    (fResult.impl = "Config"
     /\ \E P \in fPatterns : ~HasChar(P, "*") /\ IsSubdomainOf(fHost, P))
        => fResult.out

\* every segment of the pattern is '*' or a literal without '*'
SegmentPattern(P) ==
    \A i \in DOMAIN SplitDot(P) :
        SplitDot(P)[i] = <<"*">> \/ ~HasChar(SplitDot(P)[i], "*")

\* every literal segment of the pattern equals the host's segment at the same
\* place, letter case apart as everywhere in the filter
LiteralSegmentsAgree(host, P) ==
    \A i \in DOMAIN SplitDot(P) :
        \/ SplitDot(P)[i] = <<"*">>
        \/ Lower(SplitDot(P)[i]) = Lower(SplitDot(host)[i])

\* C9: with one configured pattern whose segments are literals or '*', the
\* host filter (ReaderConfig.is_domain_excluded) excludes a host with as many
\* segments as the pattern exactly when every literal segment of the pattern
\* equals the host's segment at the same place.
C9_SegmentwiseMatch ==
    \A P \in fPatterns :
        (/\ fResult.impl = "ReaderConfig"
         /\ fPatterns = {P}
         /\ SegmentPattern(P)
         /\ Len(SplitDot(fHost)) = Len(SplitDot(P)))
            => (fResult.out <=> LiteralSegmentsAgree(fHost, P))

\* a pattern like 1.* has excluded a host like 1.b
C9_Witness ==
    /\ fResult.impl = "ReaderConfig"
    /\ fResult.out
    /\ \E P \in fPatterns :
          /\ fPatterns = {P}
          /\ SegmentPattern(P)
          /\ HasChar(P, "*") /\ HasDigit(P) /\ HasChar(P, ".")
          /\ Len(SplitDot(fHost)) = Len(SplitDot(P))
          /\ HasChar(fHost, "b")

\* C34: with one configured pattern that holds a digit and whose segments are
\* literals or '*', the host filter (ReaderConfig.is_domain_excluded) does
\* not exclude a host whose number of dot-separated segments differs from
\* the pattern's.
C34_OtherLengthNotExcluded ==
    \A P \in fPatterns :
        (/\ fResult.impl = "ReaderConfig"
         /\ fPatterns = {P}
         /\ HasDigit(P)
         /\ SegmentPattern(P)
         /\ Len(SplitDot(fHost)) # Len(SplitDot(P)))
            => ~fResult.out

\* C10: every implementation of the filter answers excluded for an empty host,
\* whatever the configured patterns.
C10_EmptyHostExcluded ==
    (fResult.impl # "none" /\ fHost = <<>>) => fResult.out

(***************************************************************************)
(* Properties of the text index.                                           *)
(***************************************************************************)
\* C15: after any sequence of committed inserts, updates and deletes of rows
\* of history, the rowids of the text index are the ids of history, and every
\* index row mirrors the title, content, domain and visit_time its row has
\* now; no row is without its one index row, no index row without its row.
C15_IndexMirrorsHistory ==
    /\ {r.rowid : r \in history_fts} = Ids(history)
    /\ \A i \in Ids(history) : FtsRow(history[i]) \in history_fts
    /\ Cardinality(history_fts) = Cardinality(Ids(history))

\* a row was deleted, another was updated to the empty marker, a third one
\* is as inserted
C15_Witness ==
    /\ \E i \in DOMAIN history : history[i] = Deleted
    /\ \E i \in Ids(history) : history[i].markdown_content = ""
    /\ \E i \in Ids(history) : history[i].markdown_content = NULL

\* C32: after a reindex that completed, the three triggers and the table
\* exist, and the index holds one row for each row of history, with the
\* row's fields, and no other: whatever it held before, and whatever rows
\* the writers inserted while the reindex ran.
C32_ReindexRestoresIndex ==
    r_pc = "r_done" =>
        /\ fts_objects = FtsObjects
        /\ history_fts = Mirror(history)
        /\ fts_nrow = Cardinality(Ids(history))

\* C39: a reindex that failed part-way has left the index as it was when it
\* began: the table and the three triggers it had exist, and the rows it
\* held are in it.
C39_FailedReindexKeepsIndex ==
    r_pc = "r_failed" =>
        /\ fts_objects = r_before.objects
        /\ r_before.rows \subseteq history_fts
        /\ fts_nrow >= r_before.nrow

\* C33: a cancelled loop task has left no write in progress: it does not hold
\* db_lock, the history loop has no uncommitted rows in its session, and the
\* step that cancelled it changed neither the tables nor the guard.
C33_CancelLeavesNoWrite ==
    /\ pc.history = "h_cancelled" =>
            db_lock # "history" /\ session.history = <<>>
    /\ w_pc = "w_cancelled" => db_lock # "worker"

\* the worker is cancelled while it waits for db_lock with the text of a
\* page, and the history loop holds db_lock
C33_Witness ==
    /\ w_pc = "w_cancelled"
    /\ w_markdown = "m"
    /\ db_lock = "history"

\* a step in which the processing of one entry of the batch fails: the domain
\* check, the crawl or the update raises
EntryFailStep ==
    /\ w_pc \in {"w_entry", "w_crawl", "w_update"}
    /\ faults' # faults
    /\ w_pc' # w_pc \/ entry_index' # entry_index

C36_NoStarvation ==
    \A i \in 1..(MaxBatch + 1) :
        (/\ i \in Ids(history)
         /\ history[i].markdown_content = NULL
         /\ ~is_domain_ignored(netloc(history[i].url), ExcludedDomains))
            ~> (i \in crawled)

(***************************************************************************)
(* Properties of the enrichment worker and of the guard                    *)
(***************************************************************************)
\* C12: db_lock is never held by a task that is inside fetch_history,
\* fetch_bookmarks or crawler.arun: the history loop does not hold it while
\* it reads the browser history, the bookmark cycle does not hold it while it
\* reads the bookmarks, the worker does not hold it while it crawls.
C12_NoLockWhileFetching ==
    /\ pc.history = "h_fetch" => db_lock # "history"
    /\ pc.bookmarks = "b_fetch" => db_lock # "bookmarks"
    /\ w_pc = "w_crawl" => db_lock # "worker"

\* the worker is inside crawler.arun while the history loop holds db_lock
\* for its batch
C12_Witness ==
    /\ w_pc = "w_crawl"
    /\ db_lock = "history"
    /\ pc.history = "h_commit"


\* C11: an entry whose domain the Domain Filter (the host filter with the
\* subdomain rule, ReaderConfig.is_domain_excluded) excludes whenever the
\* enrichment worker reaches it is never assigned content, and crawler.arun
\* is never called for it.
C11_ExcludedNeverEnriched ==
    \A i \in Ids(history) :
        is_domain_excluded(history[i].domain, ExcludedDomains)
            => /\ history[i].markdown_content = NULL
               /\ i \notin crawled

\* the tasks that are between the start of a write transaction and its
\* commit or rollback: the history loop from line 189 to line 228 (batch and
\* watermark), the bookmark cycle from line 86 to line 124, the worker from
\* line 324 to line 347
InTransaction ==
    {t \in {"history"} : pc.history \in {"h_commit", "h_mark"}}
        \cup {t \in {"bookmarks"} : pc.bookmarks \in {"b_commit", "b_mark"}}
        \cup {t \in {"worker"} : w_pc = "w_update"}

\* C14: sync batch commits and enrichment updates are mutually exclusive: at
\* most one of the history loop, the bookmark cycle and the enrichment worker
\* is inside a write transaction at any time.
C14_OneWriterAtATime ==
    Cardinality(InTransaction) <= 1

\* the worker has crawled a page and waits for db_lock while the history loop
\* is inside its batch transaction
C14_Witness ==
    /\ w_pc = "w_lock"
    /\ InTransaction = {"history"}
    /\ db_lock = "history"

\* db_lock is held only inside the guarded sections: by the history loop
\* from its batch to its watermark write, by the bookmark cycle likewise, by
\* the worker for its query and for the update of one entry
HeldOnlyInside ==
    /\ db_lock = "history" => pc.history \in {"h_commit", "h_mark"}
    /\ db_lock = "bookmarks" => pc.bookmarks \in {"b_commit", "b_mark"}
    /\ db_lock = "worker" => w_pc \in {"w_select", "w_update"}

\* C38: db_lock is free after every way out of a guarded section (commit,
\* rollback after an exception, return on an empty selection), so no task
\* holds it outside its guarded sections, in particular not while it sleeps
\* between cycles or batches; and a task that waits for it eventually
\* acquires it.
C38_GuardAlwaysReleased ==
    /\ []HeldOnlyInside
    /\ (pc.history = "h_lock") ~> (db_lock = "history")
    /\ (pc.bookmarks = "b_lock") ~> (db_lock = "bookmarks")
    /\ (w_pc = "w_lock") ~> (db_lock = "worker")
    /\ (w_pc = "w_sleep") ~> (db_lock = "worker")

\* a commit of the history loop failed and was rolled back; in its next
\* cycle the loop waits for db_lock, which the worker holds for its query
C38_Witness ==
    /\ faults = 1
    /\ pc.history = "h_lock"
    /\ db_lock = "worker"
    /\ w_pc = "w_select"

\* the tasks that stand at a write transaction: the batch commits and the
\* watermark writes of the two sync tasks (with entries: lines 215-218 and
\* 109-112; without: lines 229-233 and 125-129), the worker's update and the
\* websocket handler's commit
Writers ==
    {t \in {"history"} : pc.history \in {"h_commit", "h_mark", "h_empty"}}
        \cup {t \in {"bookmarks"} :
                 pc.bookmarks \in {"b_commit", "b_mark", "b_empty"}}
        \cup {t \in {"worker"} : w_pc = "w_update"}
        \cup {t \in {"websocket"} : ws_pc = "ws_save"}

\* C13: every write transaction against the shared storage (entry batch
\* commit, single enrichment update, watermark write) is executed while the
\* writing task holds db_lock.
C13_WritersHoldGuard ==
    \A t \in Writers : db_lock = t

\* the step in which the worker's query returns its batch
SelectStep == w_pc = "w_select" /\ w_pc' # "w_select"

\* the rows of the table whose content is absent
Unattempted(tbl) == {i \in Ids(tbl) : tbl[i].markdown_content = NULL}

\* C26: each enrichment batch is selected under db_lock and holds at most N
\* rows of history, all with content absent (never yet attempted), in
\* ascending visit_time; with no such row the batch is a no-op.
C26_BatchSelection ==
    [][SelectStep =>
          LET batch == entries_to_process'
          IN  /\ db_lock = "worker"
              /\ Len(batch) <= MaxBatch
              /\ \A j \in DOMAIN batch :
                    /\ batch[j].id \in Unattempted(history)
                    /\ batch[j] = history[batch[j].id]
              /\ \A j \in 1..(Len(batch) - 1) :
                    timestamp(batch[j].visit_time)
                        <= timestamp(batch[j + 1].visit_time)
              /\ Unattempted(history) = {}
                    => (batch = <<>> /\ w_pc' = "w_sleep")
              /\ UNCHANGED <<dbVars, crawled>>]_vars

\* the step in which crawler.arun raises for the entry the worker stands at
CrawlFailStep == w_pc = "w_crawl" /\ w_pc' = "w_entry"

UpdateStep ==
    /\ w_pc = "w_update"
    /\ w_pc' = "w_entry"
    /\ faults' = faults
    /\ entry.id \in Ids(history)

\* the crawl of the entry returned without usable text
NoUsableText == w_result \in {NULL, ""}

\* C28: when the crawl succeeds without usable text, the content of the entry
\* is stored as the empty string, which is not the absent (NULL) content of an
\* entry not yet attempted; no update of the worker stores NULL.
C28_NoTextStoredAsEmpty ==
    [][UpdateStep =>
          LET stored == history'[entry.id].markdown_content
          IN  /\ stored # NULL
              /\ NoUsableText => stored = ""
              /\ ~NoUsableText => stored = w_result]_vars

\* a row not yet attempted is stored with content "" after a crawl that
\* returned no markdown
C28_Witness ==
    /\ w_pc = "w_entry"
    /\ entry_index > 1
    /\ LET done == entries_to_process[entry_index - 1]
       IN  /\ done.markdown_content = NULL
           /\ done.id \in Ids(history)
           /\ history[done.id].markdown_content = ""

\* C29: the content fields of a row are written once, by the successful
\* enrichment of the row: the update writes markdown_content and
\* last_content_update together, and it is never applied to a row whose
\* enrichment has already succeeded (whose content is no longer absent).
C29_ContentWrittenOnce ==
    [][UpdateStep =>
          /\ history[entry.id].markdown_content = NULL
          /\ history'[entry.id].markdown_content # NULL
          /\ history'[entry.id].last_content_update = Aware(clock, 0)]_vars

\* C30: the worker's update changes the content of the one row it targets
\* and nothing else: the url, title, visit_time and domain of that row, every
\* other row of history, the bookmarks and the watermarks are as before; the
\* domain the worker recomputed is not written.
C30_UpdateChangesOnlyContent ==
    [][UpdateStep =>
          /\ DOMAIN history' = DOMAIN history
          /\ \A i \in DOMAIN history :
                IF i = entry.id
                THEN /\ history'[i].id = history[i].id
                     /\ history'[i].url = history[i].url
                     /\ history'[i].title = history[i].title
                     /\ history'[i].visit_time = history[i].visit_time
                     /\ history'[i].domain = history[i].domain
                ELSE history'[i] = history[i]
          /\ UNCHANGED <<bookmarks, last_processed>>]_vars

\* the worker has written the content of one row while another row, a
\* bookmark and a watermark exist
C30_Witness ==
    /\ w_pc = "w_entry"
    /\ entry_index > 1
    /\ bookmarks # <<>>
    /\ last_processed # {}
    /\ LET done == entries_to_process[entry_index - 1]
       IN  /\ done.id \in Ids(history)
           /\ done.markdown_content = NULL
           /\ history[done.id].markdown_content = "m"
           /\ \E i \in Ids(history) :
                 i # done.id /\ history[i].markdown_content = NULL

(***************************************************************************)
(* Properties of search                                                    *)
(***************************************************************************)
\* the row of history behind the k-th returned row, and its visit second
Returned(k) == history[sResult.rows[k].id]
VisitOf(k) == timestamp(Returned(k).visit_time)

\* the supplied domain and date filters accept the row
PassesFilters(h) ==
    /\ (sQuery.domain # NoText => h.domain = sQuery.domain)
    /\ (sQuery.start_date # NoTime =>
           timestamp(h.visit_time) >= timestamp(sQuery.start_date))
    /\ (sQuery.end_date # NoTime =>
           timestamp(h.visit_time) <= timestamp(sQuery.end_date))

\* C16: in basic search the domain and date filters are hard predicates: every
\* returned row has the supplied domain and a visit_time within the supplied
\* range, whether its title or its content matched the term.
C16_FiltersAreHard ==
    sResult.impl \in {"main.search_history", "routers.search_history"} =>
        \A k \in DOMAIN sResult.rows : PassesFilters(Returned(k))

\* the base score the scoring rule names, in halves: 4.0 if the title is the
\* term, 3.0 if it starts with it, 2.0 if it contains it, 1.0 if the content
\* contains it, else 0.5
RuleBase(h, term) ==
    IF h.title = term THEN 8
    ELSE IF StartsWith(h.title, term) THEN 6
    ELSE IF Contains(h.title, term) THEN 4
    ELSE IF h.markdown_content # NoText /\ Contains(h.markdown_content, term)
         THEN 2
    ELSE 1

\* the final score of the rule, in quarters
RuleScore(h) ==
    RuleBase(h, sQuery.term) * recency_factor(timestamp(h.visit_time), clock)

\* C17: basic search gives each candidate row the base score 4.0, 3.0, 2.0,
\* 1.0 or 0.5 of the rule times the recency factor: a row that contains the
\* term and passes the filters is returned with that score, no row is
\* returned with another score, and a returned row whose title contains the
\* term has a final score of at least 2.0 (8 quarters).
C17_ScoreFollowsRule ==
    sResult.impl = "main.search_history" =>
        /\ \A i \in Ids(history) :
              (RuleBase(history[i], sQuery.term) > 1
                  /\ PassesFilters(history[i]))
                  => \E k \in DOMAIN sResult.rows :
                        sResult.rows[k] =
                            [id |-> i, rank |-> RuleScore(history[i])]
        /\ \A k \in DOMAIN sResult.rows :
              /\ sResult.rows[k].rank = RuleScore(Returned(k))
              /\ Contains(Returned(k).title, sQuery.term)
                    => sResult.rows[k].rank >= 8

\* how relevant the k-th returned row is, the higher the better: the final
\* score of main.py, the negated bm25 rank of the router
Relevance(k) ==
    IF sResult.impl = "main.search_history" THEN sResult.rows[k].rank
    ELSE 0 - sResult.rows[k].rank

\* C18: basic search returns at most 100 rows, ordered by final score
\* descending, and two returned rows of equal score come in visit_time
\* descending order.
C18_BasicOrder ==
    sResult.impl \in {"main.search_history", "routers.search_history"} =>
        /\ Len(sResult.rows) <= BasicLimit
        /\ \A i \in DOMAIN sResult.rows : \A j \in DOMAIN sResult.rows :
              i < j =>
                  /\ Relevance(i) >= Relevance(j)
                  /\ Relevance(i) = Relevance(j) => VisitOf(i) >= VisitOf(j)

\* C19: advanced search hands the raw query to MATCH unmodified and returns
\* at most 1000 rows, the best bm25 rank (the lowest value) first, rows of
\* equal rank in visit_time descending order.
C19_AdvancedOrder ==
    sResult.impl \in {"main.advanced_history_search",
                      "routers.advanced_history_search"} =>
        /\ sResult.match = raw_query(sQuery.term)
        /\ Len(sResult.rows) <= AdvancedLimit
        /\ \A i \in DOMAIN sResult.rows : \A j \in DOMAIN sResult.rows :
              i < j =>
                  /\ sResult.rows[i].rank <= sResult.rows[j].rank
                  /\ sResult.rows[i].rank = sResult.rows[j].rank
                        => VisitOf(i) >= VisitOf(j)

\* C20: the recency factor does not decrease with visit_time, and of two
\* returned rows with the same containment of the term the more recent one
\* has a score at least that of the older one and is not placed after it.
C20_RecentRanksFirst ==
    /\ \A v1 \in 0..(clock + 1) : \A v2 \in 0..(clock + 1) :
          v1 <= v2 => recency_factor(v1, clock) <= recency_factor(v2, clock)
    /\ sResult.impl = "main.search_history" =>
          \A i \in DOMAIN sResult.rows : \A j \in DOMAIN sResult.rows :
              (/\ RuleBase(Returned(i), sQuery.term)
                     = RuleBase(Returned(j), sQuery.term)
               /\ VisitOf(i) > VisitOf(j))
                  => /\ sResult.rows[i].rank >= sResult.rows[j].rank
                     /\ i < j

====
